---------------------------- MODULE Spec2Model ----------------------------
(***************************************************************************)
(* A model of the symbol-collection and script-emission helpers of the MIP *)
(* package pipeline (mip_build_helpers and scripts/prepare_packages.py).   *)
(*                                                                         *)
(* A string is a sequence of one-character strings, so 'a.m' is            *)
(* <<"a", ".", "m">>; strings compare as Python compares them, by code     *)
(* point, lexicographically.                                               *)
(***************************************************************************)
EXTENDS Naturals, Integers, Sequences, FiniteSets

VARIABLES
    \* ---- Naming-Convention Decoder (one call on one name)
    item_name,     \* the argument of the call: a file or directory name
    extensions,    \* the extension list of the with-extensions decoding
    symbol,        \* the returned symbol, NoValue before the call
    dpc,           \* "start" | "extracted" | "stripped" | "unmatched"
    \* ---- Symbol Collector (one collector call on one directory tree)
    tree,          \* the paths that exist below the staging root
    call,          \* the collector call under way: function and arguments
    cpc,           \* "idle" | "scanning" | "returned" | "raised" |
                   \* "written" | "failed"
    todo,          \* directories still to scan: os.walk's pending stack, or
                   \* the rest of the directory list of a multi-path call
    symbols,       \* the list `symbols` as appended to so far
    origins,       \* the path of the entry behind each append, in order
    visited,       \* the directories listed so far
    result,        \* the returned list, NoValue before the return
    error,         \* the exception raised, NoValue if none
    mip_json,      \* exposed_symbols of the manifest on disk, NoValue if
                   \* there is no manifest
    \* ---- Layout/Script Emitter (calls of create_load_and_unload_scripts)
    package_dirs,  \* the directories below mhl_dir/package_name, as paths
                   \* relative to it
    load_m,        \* load_package.m: its statements, or NoFile
    unload_m,      \* unload_package.m: its statements, or NoFile
    sargs,         \* the arguments of the last call
    serror,        \* the exception the last call raised, NoValue if none
    ncalls,        \* the number of calls made
    \* ---- Manifest Writer (one call of a manifest writer)
    wcall,         \* the writer called and its arguments
    mip_data,      \* the mip.json written: its keys and values, or NoFile
    werror,        \* the exception the call raised, NoValue if none
    \* ---- Build Orchestrator (one run of prepare_package_dir or of
    \* build_package on one package)
    flow,          \* "prepare" | "build": the orchestrator run, or "none"
    force,         \* self.force
    dry_run,       \* self.dry_run
    keep_dirs,     \* self.keep_dirs of the PackageBuilder
    package_data,  \* the package definition: yaml_data, or the attributes
                   \* of the Package instance
    builds_left,   \* the matching builds not yet processed
    remote,        \* what the store answers for the current build's
                   \* manifest URL
    fetched,       \* whether the current build has requested that URL
    kpc,           \* the position of the run, "idle" before it starts
    decision,      \* what was decided for the current build: "skip" |
                   \* "dry_run" | "proceed", "none" before the decision
    staged,        \* the output directory of the current build
    raised_in,     \* the step of the current build that raised, or NoValue
    kresult,       \* what the run returned or raised, NoValue before
    \* ---- Remote Store
    bucket,        \* the archive object and its sidecar manifest: the
                   \* number of the upload run each comes from, 0 if absent
    \* ---- Batch operations (one batch over the packages found)
    batch,         \* the batch operation under way, or "none"
    listing,       \* the packages found, in the order os.listdir gave them
    failing,       \* the packages whose processing fails
    queue,         \* the packages the loop has still to take
    processed,     \* the packages processed so far, in order
    in_place,      \* the packages whose results are in place
    bpc,           \* "idle" | "looping" | "returned"
    bresult,       \* what the batch returned or raised, NoValue before
    \* ---- Artifact Publisher (runs of bundle_and_upload_package and of
    \* upload_package on one package)
    run,           \* the run under way or just over: the function, the dry
                   \* run flag, and the build the local files come from
    rpc,           \* the position of the run, "idle" before the first
    uploads,       \* the uploads the run attempted, in order, each with
                   \* whether it succeeded
    rresult,       \* what the run returned, NoValue before
    nruns,         \* the number of runs started
    \* ---- Source Acquirer (one acquisition: download_and_extract_zip,
    \* clone_repository_and_remove_git, or _prepare_package of the preparer)
    acq,           \* the call: the function and, for _prepare_package, the
                   \* source keys of prepare.yaml
    apc,           \* the position of the call, "idle" before it
    content,       \* the tree the zip file or the repository holds
    dest,          \* the tree under the destination directory
    temp_download, \* whether the file temp_download.zip exists
    to_walk,       \* the directories os.walk has still to yield, next first
    walked,        \* the directories os.walk yielded, in order
    seen_mex,      \* the native binaries in the tree when the scripts were
                   \* emitted and when the symbols were collected
    aresult,       \* what the call returned or raised, NoValue before
    \* ---- Index Assembler (one run of assemble_index)
    assembler,     \* the IndexAssembler: its dry_run flag
    objects,       \* the objects of the bucket, in the order the listing
                   \* returns them: key, uploader, and what reading the
                   \* object gives
    ipc,           \* the position of the run, "idle" before it
    mip_json_keys, \* the keys _list_mip_json_files returned
    to_download,   \* the keys the loop has still to download, next first
    package_metadata, \* the metadata collected so far
    warned,        \* the keys a warning was printed for
    index_json,    \* the index.json written, NoIndex when none was
    packages_html, \* the package names of the rows of packages.html
    iresult,       \* what the run returned or raised, NoValue before
    \* ---- Entry points (the main() of each script, run in one situation)
    situation,     \* what the scripts find: whether the input or packages
                   \* directory (for assemble_index, the bucket listing) is
                   \* there, the packages found, those whose processing
                   \* fails, and the dry-run flag
    results,       \* per entry point, what its run method returned or raised
    exit_codes,    \* per entry point, the exit status of the process
    epc,           \* "idle" before the scripts ran, "exited" after
    \* ---- Output directory of the preparer (PackagePreparer objects and the
    \* builds of prepare_package_dir, one after another)
    preparer,      \* the PackagePreparer: its dry_run and force flags
    output_exists, \* whether the output directory exists
    staged_dirs,   \* per wheel name, the state of <wheel>.dir: whether it
                   \* exists, the build its files come from and the build
                   \* that wrote its mip.json (0: none)
    obuild,        \* the build under way or just over: its wheel name, its
                   \* number and the step that raised
    opc,           \* the position of the preparer, "idle" before the first
    nbuilds,       \* the number of builds that made a staged directory
    oresult,       \* what prepare_package_dir returned last, NoValue before
    \* ---- Releases of a package (one call of prepare_package_dir, its loop
    \* over the releases folder)
    release_entries, \* what os.listdir(releases_folder_path) returns, in its
                   \* order: the name of each entry, whether it is a
                   \* directory, and how its processing ends
    release,       \* the release argument: None, or the selected name
    remaining,     \* the entries the loop has still to take
    handled,       \* the entries whose processing was begun, in order
    passed_over,   \* the folders passed over for the selected release
    lpc,           \* "idle" | "looping" | "returned"
    lresult,       \* what the call returned
    \* ---- Archive names (the calls of _get_mhl_filename, one per build)
    archive_names  \* the builds named so far, each with the file name it got

dvars == <<item_name, extensions, symbol, dpc>>
cvars == <<tree, call, cpc, todo, symbols, origins, visited, result, error,
           mip_json>>
svars == <<package_dirs, load_m, unload_m, sargs, serror, ncalls>>
mvars == <<wcall, mip_data, werror>>
\* the stages that follow symbol collection and script emission
kvars == <<flow, force, dry_run, keep_dirs, package_data, remote, fetched,
           builds_left, kpc, decision, staged, raised_in, kresult>>
uvars == <<bucket>>
bvars == <<batch, listing, failing, queue, processed, in_place, bpc, bresult>>
rvars == <<run, rpc, uploads, rresult, nruns>>
avars == <<acq, apc, content, dest, temp_download, to_walk, walked, seen_mex,
           aresult>>
ivars == <<assembler, objects, ipc, mip_json_keys, to_download,
            package_metadata, warned, index_json, packages_html,
            iresult>>
evars == <<situation, results, exit_codes, epc>>
ovars == <<preparer, output_exists, staged_dirs, obuild, opc, nbuilds,
            oresult>>
lvars == <<release_entries, release, remaining, handled, passed_over, lpc,
            lresult>>
nvars == <<archive_names>>
pvars == <<mvars, kvars, uvars, bvars, rvars, avars, ivars, evars, ovars,
           lvars, nvars>>
vars == <<dvars, cvars, svars, pvars>>

NoValue == "None"

------------------------------------------------------------------------------
\* Strings

\* ord(c) of the characters the model uses
Ord(c) ==
    CASE c = "+" -> 43
      [] c = "." -> 46
      [] c = "/" -> 47
      [] c = "@" -> 64
      [] c = "a" -> 97
      [] c = "b" -> 98
      [] c = "c" -> 99
      [] c = "m" -> 109
      [] c = "s" -> 115
      [] c = "t" -> 116

\* Python's s < t on str
RECURSIVE StrLess(_, _)
StrLess(s, t) ==
    IF s = <<>> THEN t # <<>>
    ELSE IF t = <<>> THEN FALSE
    ELSE IF Head(s) = Head(t) THEN StrLess(Tail(s), Tail(t))
    ELSE Ord(Head(s)) < Ord(Head(t))

StrLeq(s, t) == s = t \/ StrLess(s, t)

\* s.startswith(p)
StartsWith(s, p) == Len(p) <= Len(s) /\ SubSeq(s, 1, Len(p)) = p

\* s.endswith(e)
EndsWith(s, e) ==
    Len(e) <= Len(s) /\ SubSeq(s, Len(s) - Len(e) + 1, Len(s)) = e

\* s[:-n]; Python reads s[:-0] as s[:0], the empty string
DropLast(s, n) == IF n = 0 THEN <<>> ELSE SubSeq(s, 1, Len(s) - n)

\* A slice that keeps the first character.
KeepFirst(s) == s

\* s[1:]
DropFirst(s) == SubSeq(s, 2, Len(s))

DotM == <<".", "m">>

------------------------------------------------------------------------------
\* Naming-Convention Decoder

\* A decoder that stops after the first rule that fires (suffix rule first).
ExtractOneRuleOnly(name) ==
    IF EndsWith(name, DotM) THEN DropLast(name, 2)
    ELSE IF StartsWith(name, <<"+">>) \/ StartsWith(name, <<"@">>)
         THEN DropFirst(name)
         ELSE name

\* _extract_symbol_name: the two `if` statements run one after the other,
\* the second on the result of the first.
_extract_symbol_name(name) ==
    LET s1 == IF EndsWith(name, DotM) THEN DropLast(name, 2) ELSE name
    IN  IF StartsWith(s1, <<"+">>) \/ StartsWith(s1, <<"@">>)
        THEN DropFirst(s1)
        ELSE s1

\* The index of the first extension of the list that the name ends with
\* (`for ext in extensions: if item.endswith(ext): ... break`), 0 if none.
RECURSIVE FirstMatchFrom(_, _, _)
FirstMatchFrom(name, exts, i) ==
    IF i > Len(exts) THEN 0
    ELSE IF EndsWith(name, exts[i]) THEN i
    ELSE FirstMatchFrom(name, exts, i + 1)

\* A decoder that keeps removing the matched extension while it is there.
RECURSIVE StripExtensionRepeatedly(_, _)
StripExtensionRepeatedly(name, exts) ==
    LET i == FirstMatchFrom(name, exts, 1)
    IN  IF i = 0 THEN NoValue
        ELSE LET r == DropLast(name, Len(exts[i]))
             IN  IF exts[i] # <<>> /\ EndsWith(r, exts[i])
                 THEN StripExtensionRepeatedly(r, exts)
                 ELSE r

\* The file branch of collect_exposed_symbols_with_extensions and of
\* prepare_packages.collect_exposed_symbols: item[:-len(ext)] for the first
\* matching ext, NoValue when no extension matches (nothing is appended).
StripExtension(name, exts) ==
    LET i == FirstMatchFrom(name, exts, 1)
    IN  IF i = 0 THEN NoValue ELSE DropLast(name, Len(exts[i]))

------------------------------------------------------------------------------
\* Bounds and input sets of the decoder

MaxNameLen == 5

DecoderAlphabet == {"+", "@", ".", "m", "a"}

\* every string over the alphabet up to the bound
Names == UNION {[1..n -> DecoderAlphabet] : n \in 0..MaxNameLen}

\* extension lists: the default, a two-extension list, a list in which two
\* extensions match the same name, and a list holding the empty extension
ExtensionLists ==
    { <<DotM>>,
      <<<<".", "a">>, DotM>>,
      <<<<"m">>, DotM>>,
      <<<<".", "a">>, <<>>>> }

\* the other components at rest
NoCall == [fn |-> "none"]

CollectorIdle ==
    /\ tree = {}
    /\ call = NoCall
    /\ cpc = "idle"
    /\ todo = <<>>
    /\ symbols = <<>>
    /\ origins = <<>>
    /\ visited = {}
    /\ result = NoValue
    /\ error = NoValue
    /\ mip_json = NoValue

NoArgs == [package_name |-> NoValue]

\* a file that does not exist, and a file holding the given lines
NoFile == [exists |-> FALSE]

File(lines) == [exists |-> TRUE, lines |-> lines]

\* the subdirs argument: None, or a list
None == [given |-> FALSE]

List(seq) == [given |-> TRUE, list |-> seq]

EmitterIdle ==
    /\ package_dirs = {}
    /\ load_m = NoFile
    /\ unload_m = NoFile
    /\ sargs = NoArgs
    /\ serror = NoValue
    /\ ncalls = 0

ManifestIdle ==
    /\ wcall = NoCall
    /\ mip_data = NoFile
    /\ werror = NoValue

\* the directory of a build before os.makedirs: absent
NoDir == [exists |-> FALSE, mip_json |-> FALSE]

\* no request made: no response
NoResponse == [kind |-> "none"]

OrchestratorIdle ==
    /\ flow = "none"
    /\ force = FALSE
    /\ dry_run = FALSE
    /\ keep_dirs = FALSE
    /\ package_data = <<>>
    /\ builds_left = 0
    /\ remote = NoResponse
    /\ fetched = FALSE
    /\ kpc = "idle"
    /\ decision = "none"
    /\ staged = NoDir
    /\ raised_in = NoValue
    /\ kresult = NoValue

EmptyBucket == [mhl |-> 0, json |-> 0]

StoreIdle == bucket = EmptyBucket

BatchIdle ==
    /\ batch = "none"
    /\ listing = <<>>
    /\ failing = {}
    /\ queue = <<>>
    /\ processed = <<>>
    /\ in_place = {}
    /\ bpc = "idle"
    /\ bresult = NoValue

NoRun == [fn |-> "none"]

PublisherIdle ==
    /\ run = NoRun
    /\ rpc = "idle"
    /\ uploads = <<>>
    /\ rresult = NoValue
    /\ nruns = 0

NoAcquisition == [fn |-> "none"]

AcquirerIdle ==
    /\ acq = NoAcquisition
    /\ apc = "idle"
    /\ content = {}
    /\ dest = {}
    /\ temp_download = FALSE
    /\ to_walk = <<>>
    /\ walked = <<>>
    /\ seen_mex = <<>>
    /\ aresult = NoValue

NoAssembler == [dry_run |-> FALSE]
NoIndex == [exists |-> FALSE]

AssemblerIdle ==
    /\ assembler = NoAssembler
    /\ objects = <<>>
    /\ ipc = "idle"
    /\ mip_json_keys = <<>>
    /\ to_download = <<>>
    /\ package_metadata = <<>>
    /\ warned = <<>>
    /\ index_json = NoIndex
    /\ packages_html = NoIndex
    /\ iresult = NoValue

NoSituation == [directory |-> FALSE, found |-> {}, failing |-> {}]

EntryPointsIdle ==
    /\ situation = NoSituation
    /\ results = <<>>
    /\ exit_codes = <<>>
    /\ epc = "idle"

NoPreparer == [made |-> FALSE]
NoBuild == [wheel |-> "none", number |-> 0, raised_in |-> "none"]
NoStagedDir == [exists |-> FALSE, files_of |-> 0, mip_json_of |-> 0]

\* the wheel names of the builds
Wheels == {"w1", "w2"}

OutputIdle ==
    /\ preparer = NoPreparer
    /\ output_exists = FALSE
    /\ staged_dirs = [w \in Wheels |-> NoStagedDir]
    /\ obuild = NoBuild
    /\ opc = "idle"
    /\ nbuilds = 0
    /\ oresult = NoValue

ReleasesIdle ==
    /\ release_entries = <<>>
    /\ release = [given |-> FALSE]
    /\ remaining = <<>>
    /\ handled = <<>>
    /\ passed_over = <<>>
    /\ lpc = "idle"
    /\ lresult = NoValue

NamingIdle == archive_names = <<>>

\* the later stages at rest
PipelineIdle ==
    /\ ManifestIdle
    /\ OrchestratorIdle
    /\ StoreIdle
    /\ BatchIdle
    /\ PublisherIdle
    /\ AcquirerIdle
    /\ AssemblerIdle
    /\ EntryPointsIdle
    /\ OutputIdle
    /\ ReleasesIdle
    /\ NamingIdle

------------------------------------------------------------------------------
\* Specification of the decoder: one name, one decoding call

InitDecoder ==
    /\ item_name \in Names
    /\ extensions = <<>>
    /\ symbol = NoValue
    /\ dpc = "start"
    /\ CollectorIdle
    /\ EmitterIdle
    /\ PipelineIdle

\* symbol = _extract_symbol_name(item_name)
ExtractSymbolName ==
    /\ dpc = "start"
    /\ symbol' = _extract_symbol_name(item_name)
    /\ dpc' = "extracted"
    /\ UNCHANGED <<item_name, extensions, cvars, svars, pvars>>

\* the extension loop on a file name, an extension matching
StripMatched ==
    /\ dpc = "start"
    /\ \E exts \in ExtensionLists :
          /\ StripExtension(item_name, exts) # NoValue
          /\ extensions' = exts
          /\ symbol' = StripExtension(item_name, exts)
    /\ dpc' = "stripped"
    /\ UNCHANGED <<item_name, cvars, svars, pvars>>

\* the extension loop on a file name, no extension matching
StripUnmatched ==
    /\ dpc = "start"
    /\ \E exts \in ExtensionLists :
          /\ StripExtension(item_name, exts) = NoValue
          /\ extensions' = exts
    /\ dpc' = "unmatched"
    /\ UNCHANGED <<item_name, symbol, cvars, svars, pvars>>

NextDecoder == ExtractSymbolName \/ StripMatched \/ StripUnmatched

SpecDecoder == InitDecoder /\ [][NextDecoder]_vars

------------------------------------------------------------------------------
\* The directory tree the collectors scan

nAM == <<"a", ".", "m">>
nAMM == <<"a", ".", "m", ".", "m">>
nAC == <<"a", ".", "c">>
nBM == <<"b", ".", "m">>
nPlusA == <<"+", "a">>
nPlusPlusA == <<"+", "+", "a">>
nPlusC == <<"+", "c">>
nAtB == <<"@", "b">>
nS == <<"s">>
nT == <<"t">>
nPlusT == <<"+", "t">>

\* A path is the sequence of entry names from the staging root down to the
\* entry; the staging root is the empty path and always exists.
Root == <<>>

\* the entries a tree may hold, by kind
DirCandidates ==
    { <<nPlusA>>, <<nAtB>>, <<nPlusPlusA>>, <<nBM>>,
      <<nS>>, <<nS, nT>>, <<nT>>, <<nPlusT>> }

FileCandidates ==
    { <<nAM>>, <<nAMM>>, <<nAC>>, <<nPlusC>>,
      <<nS, nAM>>, <<nS, nT, nBM>>, <<nT, nBM>>, <<nPlusT, nBM>> }

MaxEntries == 4

Parent(p) == SubSeq(p, 1, Len(p) - 1)

\* os.path.basename
Name(p) == p[Len(p)]

\* every tree of at most MaxEntries entries in which each entry's parent
\* directory exists
Trees ==
    { t \in SUBSET (DirCandidates \cup FileCandidates) :
        /\ Cardinality(t) <= MaxEntries
        /\ \A p \in t : Len(p) > 1 => Parent(p) \in t }

\* os.path.exists, os.path.isdir, os.path.isfile, os.listdir
Exists(p) == p = Root \/ p \in tree
IsDir(p) == p = Root \/ (p \in tree /\ p \in DirCandidates)
IsFile(p) == p \in tree /\ p \in FileCandidates
ListDir(d) == {p \in tree : Parent(p) = d /\ Len(p) = Len(d) + 1}

------------------------------------------------------------------------------
\* sorted()

\* A sort that drops an element already in the list.
RECURSIVE InsertUnique(_, _)
InsertUnique(x, s) ==
    IF s = <<>> THEN <<x>>
    ELSE IF x = Head(s) THEN s
    ELSE IF StrLess(x, Head(s)) THEN <<x>> \o s
    ELSE <<Head(s)>> \o InsertUnique(x, Tail(s))

RECURSIVE Insert(_, _)
Insert(x, s) ==
    IF s = <<>> THEN <<x>>
    ELSE IF StrLess(x, Head(s)) THEN <<x>> \o s
    ELSE <<Head(s)>> \o Insert(x, Tail(s))

\* A list left in the order it was appended in.
Unsorted(s) == s

\* sorted(list) of a list of str: ascending, every element kept
RECURSIVE sorted(_)
sorted(s) == IF s = <<>> THEN <<>> ELSE Insert(Head(s), sorted(Tail(s)))

\* sorted(os.listdir(d)): the entries of one directory (their names differ),
\* ascending by name
RECURSIVE SortedEntries(_)
SortedEntries(S) ==
    IF S = {} THEN <<>>
    ELSE LET least == CHOOSE p \in S : \A q \in S : StrLeq(Name(p), Name(q))
         IN  <<least>> \o SortedEntries(S \ {least})

\* the orders in which a directory listing may come back
Orders(S) ==
    { f \in [1..Cardinality(S) -> S] :
        \A i, j \in 1..Cardinality(S) : i # j => f[i] # f[j] }

HasMarker(name) == StartsWith(name, <<"+">>) \/ StartsWith(name, <<"@">>)

\* one appended symbol and the entry it came from
Sym(s, p) == [sym |-> s, path |-> p]

SymsOf(appends) == [i \in 1..Len(appends) |-> appends[i].sym]
PathsOf(appends) == [i \in 1..Len(appends) |-> appends[i].path]

------------------------------------------------------------------------------
\* The loops of the single-directory collectors

\* A top-level loop that takes every '.m' name, directory or not, and every
\* marked name, file or not.
RECURSIVE TopLevelLoopNoKindTest(_, _)
TopLevelLoopNoKindTest(items, acc) ==
    IF items = <<>> THEN acc
    ELSE LET p == Head(items)
             item == Name(p)
         IN  IF EndsWith(item, DotM) \/ HasMarker(item)
             THEN TopLevelLoopNoKindTest(Tail(items),
                      Append(acc, Sym(_extract_symbol_name(item), p)))
             ELSE TopLevelLoopNoKindTest(Tail(items), acc)

\* collect_exposed_symbols_top_level, lines 155-163: the loop over
\* sorted(items)
RECURSIVE TopLevelLoop(_, _)
TopLevelLoop(items, acc) ==
    IF items = <<>> THEN acc
    ELSE LET p == Head(items)
             item == Name(p)
         IN  IF EndsWith(item, DotM) /\ IsFile(p)
             THEN TopLevelLoop(Tail(items),
                      Append(acc, Sym(_extract_symbol_name(item), p)))
             ELSE IF IsDir(p) /\ HasMarker(item)
             THEN TopLevelLoop(Tail(items),
                      Append(acc, Sym(_extract_symbol_name(item), p)))
             ELSE TopLevelLoop(Tail(items), acc)

\* collect_exposed_symbols_with_extensions, lines 116-128, and
\* prepare_packages.collect_exposed_symbols, lines 95-107 (the same loop)
RECURSIVE ExtensionsLoop(_, _, _)
ExtensionsLoop(items, exts, acc) ==
    IF items = <<>> THEN acc
    ELSE LET p == Head(items)
             item == Name(p)
         IN  IF IsFile(p)
             THEN IF StripExtension(item, exts) # NoValue
                  THEN ExtensionsLoop(Tail(items), exts,
                           Append(acc, Sym(StripExtension(item, exts), p)))
                  ELSE ExtensionsLoop(Tail(items), exts, acc)
             ELSE IF IsDir(p) /\ HasMarker(item)
             THEN ExtensionsLoop(Tail(items), exts,
                      Append(acc, Sym(DropFirst(item), p)))
             ELSE ExtensionsLoop(Tail(items), exts, acc)

\* what a call gives back: a list of appends, or an exception
Returns(appends) == [raised |-> NoValue, appends |-> appends]
Raises(exc) == [raised |-> exc, appends |-> <<>>]

\* A top-level collector that lists the directory without the existence test.
TopLevelNoExistsTest(d) ==
    IF ~ IsDir(d) THEN Raises(IF Exists(d) THEN "NotADirectoryError"
                                           ELSE "FileNotFoundError")
    ELSE Returns(TopLevelLoop(SortedEntries(ListDir(d)), <<>>))

\* collect_exposed_symbols_top_level(package_dir): [] for a missing
\* directory; os.listdir raises on a path that is not a directory
collect_exposed_symbols_top_level(d) ==
    IF ~ Exists(d) THEN Returns(<<>>)
    ELSE IF ~ IsDir(d) THEN Raises("NotADirectoryError")
    ELSE Returns(TopLevelLoop(SortedEntries(ListDir(d)), <<>>))

\* collect_exposed_symbols_with_extensions(package_dir, extensions)
collect_exposed_symbols_with_extensions(d, exts) ==
    IF ~ Exists(d) THEN Returns(<<>>)
    ELSE IF ~ IsDir(d) THEN Raises("NotADirectoryError")
    ELSE Returns(ExtensionsLoop(SortedEntries(ListDir(d)), exts, <<>>))

\* prepare_packages.collect_exposed_symbols(base_dir, extensions)
collect_exposed_symbols(d, exts) ==
    IF ~ Exists(d) THEN Returns(<<>>)
    ELSE IF ~ IsDir(d) THEN Raises("NotADirectoryError")
    ELSE Returns(ExtensionsLoop(SortedEntries(ListDir(d)), exts, <<>>))

------------------------------------------------------------------------------
\* One level of collect_exposed_symbols_recursive's os.walk loop

\* A pruning that forgets the exclusion list.
KeptDirsNoExclusion(root, exclude) == {p \in ListDir(root) : IsDir(p)}

\* line 195: dirs[:] = [d for d in dirs if d not in exclude_dirs]
KeptDirs(root, exclude) ==
    {p \in ListDir(root) : IsDir(p) /\ Name(p) \notin exclude}

\* os.walk's `files`: the entries of root that are not directories
WalkFiles(root) == {p \in ListDir(root) : ~ IsDir(p)}

\* lines 205-207
RECURSIVE FileLoop(_, _)
FileLoop(items, acc) ==
    IF items = <<>> THEN acc
    ELSE IF EndsWith(Name(Head(items)), DotM)
    THEN FileLoop(Tail(items),
             Append(acc, Sym(_extract_symbol_name(Name(Head(items))),
                             Head(items))))
    ELSE FileLoop(Tail(items), acc)

\* lines 210-212
RECURSIVE DirLoop(_, _)
DirLoop(items, acc) ==
    IF items = <<>> THEN acc
    ELSE IF HasMarker(Name(Head(items)))
    THEN DirLoop(Tail(items),
             Append(acc, Sym(_extract_symbol_name(Name(Head(items))),
                             Head(items))))
    ELSE DirLoop(Tail(items), acc)

\* the appends of one iteration of the walk, files first, then the kept
\* directories
WalkAppends(root, exclude) ==
    DirLoop(SortedEntries(KeptDirs(root, exclude)),
            FileLoop(SortedEntries(WalkFiles(root)), <<>>))

------------------------------------------------------------------------------
\* Arguments of the collector calls

\* package_dir / base_dir: the root, two subdirectories (there or not), and
\* a path that, when there, is a file
Targets == {Root, <<nS>>, <<nT>>, <<nAM>>}

\* exclude_dirs
ExcludeSets == {{}, {nT}, {nT, nPlusT}}

\* extensions / symbol_extensions
DotC == <<".", "c">>
CollectExtensionLists == {<<DotM>>, <<DotC, DotM>>}

\* package_dirs (with one base path each) / all_paths
PathLists ==
    { <<Root>>, <<Root, <<nS>>>>, <<<<nS>>, Root>>, <<<<nS>>, <<nT>>>>,
      <<<<nAM>>, Root>> }

Call(fn, dirs, exclude, exts) ==
    [fn |-> fn, dirs |-> dirs, exclude |-> exclude, exts |-> exts]

------------------------------------------------------------------------------
\* Specification of the collectors: one tree, one collector call, and the
\* manifest written from its result

DecoderIdle ==
    /\ item_name = <<>>
    /\ extensions = <<>>
    /\ symbol = NoValue
    /\ dpc = "idle"

InitCollector ==
    /\ tree \in Trees
    /\ call = NoCall
    /\ cpc = "idle"
    /\ todo = <<>>
    /\ symbols = <<>>
    /\ origins = <<>>
    /\ visited = {}
    /\ result = NoValue
    /\ error = NoValue
    /\ mip_json = NoValue
    /\ DecoderIdle
    /\ EmitterIdle
    /\ PipelineIdle

\* the end of a single-directory call: `return symbols`, or the exception
Finish(d, r) ==
    /\ todo' = <<>>
    /\ visited' = IF IsDir(d) THEN {d} ELSE {}
    /\ symbols' = SymsOf(r.appends)
    /\ origins' = PathsOf(r.appends)
    /\ IF r.raised = NoValue
       THEN cpc' = "returned" /\ result' = SymsOf(r.appends) /\ error' = NoValue
       ELSE cpc' = "raised" /\ result' = NoValue /\ error' = r.raised

\* collect_exposed_symbols_top_level(package_dir)
TopLevel ==
    /\ cpc = "idle"
    /\ \E d \in Targets :
          /\ call' = Call("top_level", <<d>>, {}, <<DotM>>)
          /\ Finish(d, collect_exposed_symbols_top_level(d))
    /\ UNCHANGED <<tree, mip_json, dvars, svars, pvars>>

\* collect_exposed_symbols_with_extensions(package_dir, extensions)
WithExtensions ==
    /\ cpc = "idle"
    /\ \E d \in Targets, exts \in CollectExtensionLists :
          /\ call' = Call("with_extensions", <<d>>, {}, exts)
          /\ Finish(d, collect_exposed_symbols_with_extensions(d, exts))
    /\ UNCHANGED <<tree, mip_json, dvars, svars, pvars>>

\* collect_exposed_symbols_recursive(package_dir, exclude_dirs), up to the
\* start of the walk: [] for a missing directory; os.walk yields nothing for
\* a path that is not a directory, so sorted([]) is returned
RecursiveStart ==
    /\ cpc = "idle"
    /\ \E d \in Targets, ex \in ExcludeSets :
          /\ call' = Call("recursive", <<d>>, ex, <<DotM>>)
          /\ IF IsDir(d)
             THEN /\ cpc' = "scanning"
                  /\ todo' = <<d>>
                  /\ result' = NoValue
             ELSE /\ cpc' = "returned"
                  /\ todo' = <<>>
                  /\ result' = <<>>
    /\ UNCHANGED <<tree, symbols, origins, visited, error, mip_json, dvars, svars, pvars>>

\* one iteration of `for root, dirs, files in os.walk(package_dir)`; the one
\* that ends the walk also runs `return sorted(symbols)`
RecursiveWalk ==
    /\ cpc = "scanning"
    /\ call.fn = "recursive"
    /\ LET root == Head(todo)
           appends == WalkAppends(root, call.exclude)
       IN  /\ \E order \in Orders(KeptDirs(root, call.exclude)) :
                 todo' = order \o Tail(todo)
           /\ visited' = visited \cup {root}
           /\ symbols' = symbols \o SymsOf(appends)
           /\ origins' = origins \o PathsOf(appends)
    /\ IF todo' = <<>>
       THEN cpc' = "returned" /\ result' = sorted(symbols')
       ELSE UNCHANGED <<cpc, result>>
    /\ UNCHANGED <<tree, call, error, mip_json, dvars, svars, pvars>>

\* collect_exposed_symbols_multiple_paths(package_dirs, base_paths), with one
\* base path per directory, up to the loop
MultiplePathsStart ==
    /\ cpc = "idle"
    /\ \E dirs \in PathLists :
          /\ call' = Call("multiple_paths", dirs, {}, <<DotM>>)
          /\ todo' = dirs
    /\ cpc' = "scanning"
    /\ UNCHANGED <<tree, symbols, origins, visited, result, error, mip_json,
                   dvars, svars, pvars>>

\* one iteration of `for package_dir, base_path in zip(...)`; the last one
\* also runs `return sorted(symbols)`
MultiplePathsStep ==
    /\ cpc = "scanning"
    /\ call.fn = "multiple_paths"
    /\ LET d == Head(todo)
           r == collect_exposed_symbols_top_level(d)
       IN  /\ todo' = Tail(todo)
           /\ visited' = IF IsDir(d) THEN visited \cup {d} ELSE visited
           /\ symbols' = symbols \o SymsOf(r.appends)
           /\ origins' = origins \o PathsOf(r.appends)
           /\ IF r.raised # NoValue
              THEN cpc' = "raised" /\ error' = r.raised /\ result' = NoValue
              ELSE IF Tail(todo) = <<>>
              THEN cpc' = "returned" /\ result' = sorted(symbols')
                   /\ error' = NoValue
              ELSE UNCHANGED <<cpc, result, error>>
    /\ UNCHANGED <<tree, call, mip_json, dvars, svars, pvars>>

\* PackagePreparer._prepare_package, lines 303-304: the symbol collection of
\* the orchestrator over all_paths
PrepareStart ==
    /\ cpc = "idle"
    /\ \E dirs \in PathLists, exts \in CollectExtensionLists :
          /\ call' = Call("prepare", dirs, {}, exts)
          /\ todo' = dirs
    /\ cpc' = "scanning"
    /\ UNCHANGED <<tree, symbols, origins, visited, result, error, mip_json,
                   dvars, svars, pvars>>

\* lines 306-314: one iteration of `for path in all_paths`; the last one
\* also runs `return exposed_symbols`
PrepareStep ==
    /\ cpc = "scanning"
    /\ call.fn = "prepare"
    /\ LET d == Head(todo)
           r == IF Exists(d) THEN collect_exposed_symbols(d, call.exts)
                             ELSE Returns(<<>>)
       IN  /\ todo' = Tail(todo)
           /\ visited' = IF IsDir(d) THEN visited \cup {d} ELSE visited
           /\ symbols' = symbols \o SymsOf(r.appends)
           /\ origins' = origins \o PathsOf(r.appends)
           /\ IF r.raised # NoValue
              THEN cpc' = "raised" /\ error' = r.raised /\ result' = NoValue
              ELSE IF Tail(todo) = <<>>
              THEN cpc' = "returned" /\ result' = symbols'
                   /\ error' = NoValue
              ELSE UNCHANGED <<cpc, result, error>>
    /\ UNCHANGED <<tree, call, mip_json, dvars, svars, pvars>>

\* PackageBuilder.build_package, line 302: the manifest of a package whose
\* build() set self.exposed_symbols from a helper collector
BuildCreateMipJson ==
    /\ cpc = "returned"
    /\ call.fn # "prepare"
    /\ mip_json' = result
    /\ cpc' = "written"
    /\ UNCHANGED <<tree, call, todo, symbols, origins, visited, result, error,
                   dvars, svars, pvars>>

\* PackagePreparer.prepare_package_dir, lines 427-430: _create_mip_json is
\* called with a keyword, release=, that its signature (line 319) does not
\* have; the call raises TypeError before the manifest is written
PrepareCreateMipJson ==
    /\ cpc = "returned"
    /\ call.fn = "prepare"
    /\ error' = "TypeError"
    /\ cpc' = "failed"
    /\ UNCHANGED <<tree, call, todo, symbols, origins, visited, result,
                   mip_json, dvars, svars, pvars>>

NextCollector ==
    \/ TopLevel
    \/ WithExtensions
    \/ RecursiveStart
    \/ RecursiveWalk
    \/ MultiplePathsStart
    \/ MultiplePathsStep
    \/ PrepareStart
    \/ PrepareStep
    \/ BuildCreateMipJson
    \/ PrepareCreateMipJson

SpecCollector == InitCollector /\ [][NextCollector]_vars

------------------------------------------------------------------------------
\* The load/unload scripts of mip_build_helpers

\* A package name and a subdirectory are paths, sequences of directory
\* names: <<"a">> is 'a', <<"b", "c">> is 'b/c'.  A script is the sequence
\* of the statements written to it.

\* "% Add {package_name} to the MATLAB path" and the other comment lines
Comment(about) == [op |-> "comment", about |-> about]

\* "{v}_path = fullfile(fileparts(mfilename('fullpath')), '{dir}');"
AssignHere(v, dir) == [op |-> "assign_here", var |-> v, dir |-> dir]

\* "{v}_path = fullfile({base}_path, '{dir}');"
AssignSub(v, base, dir) ==
    [op |-> "assign_sub", var |-> v, base |-> base, dir |-> dir]

\* "addpath({v}_path);" and "rmpath({v}_path);"
AddPath(v) == [op |-> "addpath", var |-> v]
RmPath(v) == [op |-> "rmpath", var |-> v]

\* reversed(subdirs)
reversed(seq) == [i \in 1..Len(seq) |-> seq[Len(seq) + 1 - i]]

\* lines 41-44: the three lines written for each subdirectory
RECURSIVE LoadSubdirLines(_, _)
LoadSubdirLines(package_name, subdirs) ==
    IF subdirs = <<>> THEN <<>>
    ELSE << Comment(Head(subdirs)),
            AssignSub(Head(subdirs), package_name, Head(subdirs)),
            AddPath(Head(subdirs)) >>
         \o LoadSubdirLines(package_name, Tail(subdirs))

\* lines 53-56, over a list already reversed
RECURSIVE UnloadSubdirLines(_, _)
UnloadSubdirLines(package_name, subdirs) ==
    IF subdirs = <<>> THEN <<>>
    ELSE << Comment(Head(subdirs)),
            AssignSub(Head(subdirs), package_name, Head(subdirs)),
            RmPath(Head(subdirs)) >>
         \o UnloadSubdirLines(package_name, Tail(subdirs))

\* `if subdirs:` is false for None and for []
Truthy(subdirs) == subdirs.given /\ subdirs.list # <<>>

\* lines 32-44: load_package.m
LoadScript(package_name, subdirs) ==
    << Comment(package_name),
       AssignHere(package_name, package_name),
       AddPath(package_name) >>
    \o (IF Truthy(subdirs) THEN LoadSubdirLines(package_name, subdirs.list)
        ELSE <<>>)

\* lines 47-62: unload_package.m
UnloadScript(package_name, subdirs) ==
    << Comment(package_name),
       AssignHere(package_name, package_name) >>
    \o (IF Truthy(subdirs)
        THEN UnloadSubdirLines(package_name, reversed(subdirs.list))
        ELSE <<>>)
    \o << RmPath(package_name) >>

\* lines 27-30: the orders in which os.walk(package_dir) may yield the
\* directories below the package directory: top-down, a directory followed
\* by everything beneath it, siblings in the order the listing gives
IsPrefix(a, b) == Len(a) <= Len(b) /\ SubSeq(b, 1, Len(a)) = a

WalkOrders(dirs) ==
    { f \in [1..Cardinality(dirs) -> dirs] :
        /\ \A i, j \in 1..Cardinality(dirs) : i # j => f[i] # f[j]
        /\ \A i \in 1..Cardinality(dirs) :
              Len(f[i]) > 1 =>
                \E j \in 1..(i - 1) :
                    /\ f[j] = Parent(f[i])
                    /\ \A k \in (j + 1)..i : IsPrefix(f[j], f[k]) }

\* what a call leaves behind: the exception, and the two files
Outcome(raised, load, unload) ==
    [raised |-> raised, load_m |-> load, unload_m |-> unload]

\* A version that tests the arguments only after load_package.m is written.
CreateScriptsTestAfterWrite(package_name, subdirs, add_all_subdirs, walk, old_load, old_unload) ==
    IF add_all_subdirs /\ subdirs.given
    THEN Outcome("ValueError", File(LoadScript(package_name, subdirs)),
                 old_unload)
    ELSE LET subs == IF add_all_subdirs THEN List(walk) ELSE subdirs
         IN  Outcome(NoValue, File(LoadScript(package_name, subs)),
                     File(UnloadScript(package_name, subs)))

\* create_load_and_unload_scripts(mhl_dir, package_name, subdirs,
\* add_all_subdirs); walk is the order os.walk yields the package's
\* directories in, old_load and old_unload the files as they are
create_load_and_unload_scripts(package_name, subdirs, add_all_subdirs, walk, old_load, old_unload) ==
    IF add_all_subdirs /\ subdirs.given
    THEN Outcome("ValueError", old_load, old_unload)
    ELSE LET subs == IF add_all_subdirs THEN List(walk) ELSE subdirs
         IN  Outcome(NoValue, File(LoadScript(package_name, subs)),
                     File(UnloadScript(package_name, subs)))

------------------------------------------------------------------------------
\* What a script does when MATLAB runs it

\* the path calls of a script, in order, each with the directory (relative
\* to the script's own directory) its argument holds at that point
RECURSIVE Run(_, _, _)
Run(script, env, acc) ==
    IF script = <<>> THEN acc
    ELSE LET st == Head(script)
             bind(v, val) ==
                 [x \in DOMAIN env \cup {v} |-> IF x = v THEN val ELSE env[x]]
         IN  CASE st.op = "comment" -> Run(Tail(script), env, acc)
               [] st.op = "assign_here" ->
                    Run(Tail(script), bind(st.var, st.dir), acc)
               [] st.op = "assign_sub" ->
                    Run(Tail(script),
                        bind(st.var, env[st.base] \o st.dir), acc)
               [] st.op \in {"addpath", "rmpath"} ->
                    Run(Tail(script), env,
                        Append(acc, [op |-> st.op, dir |-> env[st.var]]))

PathCalls(script) == Run(script, << >>, <<>>)

------------------------------------------------------------------------------
\* Specification of the script emitter: a package directory and a bounded
\* number of calls

MaxSubdirs == 2

MaxCalls == 2

PackageNames == {<<"a">>, <<"c">>}

SubdirNames == {<<"a">>, <<"b">>}

\* the values of the subdirs argument
SubdirLists ==
    {None} \cup { List(l) :
                     l \in UNION {[1..n -> SubdirNames] : n \in 0..MaxSubdirs} }

\* the directories found below the package directory
PackageDirSets ==
    { {}, {<<"b">>}, {<<"b">>, <<"c">>}, {<<"b">>, <<"b", "c">>},
      {<<"b">>, <<"b", "c">>, <<"c">>} }

InitEmitter ==
    /\ package_dirs \in PackageDirSets
    /\ load_m = NoFile
    /\ unload_m = NoFile
    /\ sargs = NoArgs
    /\ serror = NoValue
    /\ ncalls = 0
    /\ DecoderIdle
    /\ CollectorIdle
    /\ PipelineIdle

\* one call of create_load_and_unload_scripts
CreateLoadAndUnloadScripts ==
    /\ ncalls < MaxCalls
    /\ \E package_name \in PackageNames, subdirs \in SubdirLists,
          add_all_subdirs \in BOOLEAN, walk \in WalkOrders(package_dirs) :
          LET out == create_load_and_unload_scripts(
                         package_name, subdirs, add_all_subdirs, walk,
                         load_m, unload_m)
          IN  /\ sargs' = [package_name |-> package_name,
                           subdirs |-> subdirs,
                           add_all_subdirs |-> add_all_subdirs,
                           walk |-> IF add_all_subdirs /\ ~ subdirs.given
                                    THEN List(walk) ELSE None]
              /\ serror' = out.raised
              /\ load_m' = out.load_m
              /\ unload_m' = out.unload_m
    /\ ncalls' = ncalls + 1
    /\ UNCHANGED <<package_dirs, dvars, cvars, pvars>>

NextEmitter == CreateLoadAndUnloadScripts

SpecEmitter == InitEmitter /\ [][NextEmitter]_vars

------------------------------------------------------------------------------
\* The manifest writers

\* A dict is a function from its keys to their values.  A value is named by
\* a string: "" is the empty string, "[]" the empty list, NoValue is None.
EmptyDict == [k \in {} |-> NoValue]

\* d[k] = v
Put(d, k, v) == [x \in DOMAIN d \cup {k} |-> IF x = k THEN v ELSE d[x]]

\* d.get(k, default)
Get(d, k, default) == IF k \in DOMAIN d THEN d[k] ELSE default

\* what a writer leaves behind: the exception, and mip.json
Written(data) == [raised |-> NoValue, file |-> File(data)]

NotWritten(exception, old) == [raised |-> exception, file |-> old]

\* build_helpers.create_mip_json
create_mip_json(package_name, dependencies, exposed_symbols, version) ==
    LET deps == IF dependencies = NoValue THEN "[]" ELSE dependencies
        syms == IF exposed_symbols = NoValue THEN "[]" ELSE exposed_symbols
        base == Put(Put(EmptyDict, "dependencies", deps),
                    "exposed_symbols", syms)
        named == IF package_name # NoValue
                 THEN Put(base, "package", package_name) ELSE base
    IN  Written(IF version # NoValue
                THEN Put(named, "version", version) ELSE named)

\* the keys PackagePreparer._create_mip_json reads with yaml_data[...] and
\* build[...]
RequiredYaml == {"name", "description", "version", "release_number"}

RequiredBuild == {"matlab_tag", "abi_tag", "platform_tag"}

\* the keys it reads with yaml_data.get(key, default), and the defaults
DefaultedYaml == {"dependencies", "homepage", "repository", "license",
                  "usage_examples"}

DefaultOf(key) == IF key \in {"dependencies", "usage_examples"} THEN "[]" ELSE ""

\* PackagePreparer._create_mip_json(mhl_dir, yaml_data, build,
\* exposed_symbols, prepare_duration, mhl_filename); old is mip.json as it is
_create_mip_json(yaml_data, build, exposed_symbols, old) ==
    IF ~ (RequiredYaml \subseteq DOMAIN yaml_data
          /\ RequiredBuild \subseteq DOMAIN build)
    THEN NotWritten("KeyError", old)
    ELSE Written(
           [k \in RequiredYaml \cup DefaultedYaml \cup RequiredBuild
                  \cup {"exposed_symbols", "timestamp", "prepare_duration",
                        "compile_duration", "mhl_url"} |->
              CASE k \in RequiredYaml -> yaml_data[k]
                [] k \in DefaultedYaml -> Get(yaml_data, k, DefaultOf(k))
                [] k \in RequiredBuild -> build[k]
                [] k = "exposed_symbols" -> exposed_symbols
                [] k = "timestamp" -> "utcnow"
                [] k = "prepare_duration" -> "duration"
                [] k = "compile_duration" -> "0"
                [] k = "mhl_url" -> "base_url/mhl_filename"])

------------------------------------------------------------------------------
\* Specification of the manifest writers: one call of one writer

\* the value a package definition gives a field
ValueOf(key) ==
    CASE key = "name" -> "pkg"
      [] key = "description" -> "a package"
      [] key = "version" -> "1.0"
      [] key = "release_number" -> "1"
      [] key = "build_number" -> "1"
      [] key = "dependencies" -> "[dep]"
      [] key = "homepage" -> "https://home"
      [] key = "repository" -> "https://repo"
      [] key = "license" -> "MIT"
      [] key = "usage_examples" -> "[example]"

\* the contents of prepare.yaml: any of the fields, each given or not
YamlDatas ==
    { [k \in given |-> ValueOf(k)] :
        given \in SUBSET (RequiredYaml \cup DefaultedYaml) }

Builds ==
    { [k \in given |-> "any"] :
        given \in {RequiredBuild, RequiredBuild \ {"abi_tag"}} }

SymbolLists == {"[]", "[a]"}

\* an argument of create_mip_json: None, or a value
Optional(values) == {NoValue} \cup values

\* what a call of a writer leaves alone
ManifestFrame ==
    UNCHANGED <<dvars, cvars, svars, kvars, uvars, bvars, rvars, avars, ivars,
                evars, ovars, lvars, nvars>>

InitManifest ==
    /\ ManifestIdle
    /\ OrchestratorIdle
    /\ StoreIdle
    /\ BatchIdle
    /\ PublisherIdle
    /\ DecoderIdle
    /\ CollectorIdle
    /\ EmitterIdle
    /\ AcquirerIdle
    /\ AssemblerIdle
    /\ EntryPointsIdle
    /\ OutputIdle
    /\ ReleasesIdle
    /\ NamingIdle

\* a call of build_helpers.create_mip_json
CreateMipJson ==
    /\ wcall = NoCall
    /\ \E package_name \in Optional({"pkg"}),
          dependencies \in Optional({"[]", "[dep]"}),
          exposed_symbols \in Optional(SymbolLists),
          version \in Optional({"1.0", ""}) :
          LET out == create_mip_json(package_name, dependencies,
                                     exposed_symbols, version)
          IN  /\ wcall' = [fn |-> "create_mip_json",
                           package_name |-> package_name,
                           dependencies |-> dependencies,
                           exposed_symbols |-> exposed_symbols,
                           version |-> version]
              /\ mip_data' = out.file
              /\ werror' = out.raised
    /\ ManifestFrame

\* a call of PackagePreparer._create_mip_json
PreparerCreateMipJson ==
    /\ wcall = NoCall
    /\ \E yaml_data \in YamlDatas, build \in Builds,
          exposed_symbols \in SymbolLists :
          LET out == _create_mip_json(yaml_data, build, exposed_symbols,
                                      mip_data)
          IN  /\ wcall' = [fn |-> "_create_mip_json",
                           yaml_data |-> yaml_data,
                           build |-> build,
                           exposed_symbols |-> exposed_symbols]
              /\ mip_data' = out.file
              /\ werror' = out.raised
    /\ ManifestFrame

NextManifest == CreateMipJson \/ PreparerCreateMipJson

SpecManifest == InitManifest /\ [][NextManifest]_vars

------------------------------------------------------------------------------
\* The existence check of the orchestrators

\* fields_to_compare of PackagePreparer ("prepare") and of PackageBuilder
\* ("build")
fields_to_compare(fl) ==
    IF fl = "prepare"
    THEN <<"name", "description", "version", "release_number",
           "dependencies", "homepage", "repository", "license">>
    ELSE <<"name", "description", "version", "build_number",
           "dependencies", "homepage", "repository">>

\* the loop over fields_to_compare from the i-th field on: "False" at the
\* first field that differs, "True" when none does.  The preparer reads the
\* definition with package_data.get(field), the builder with
\* getattr(package, field), which raises when there is no such attribute.
RECURSIVE CompareFields(_, _, _, _)
CompareFields(fl, existing_metadata, definition, i) ==
    IF i > Len(fields_to_compare(fl)) THEN "True"
    ELSE LET field == fields_to_compare(fl)[i]
         IN  IF fl = "build" /\ field \notin DOMAIN definition
             THEN "AttributeError"
             ELSE IF Get(existing_metadata, field, NoValue)
                       # Get(definition, field, NoValue)
             THEN "False"
             ELSE CompareFields(fl, existing_metadata, definition, i + 1)

\* _check_existing_package(mhl_filename, package_data), given the response
\* to requests.get(mip_json_url): 404, a RequestException (no connection,
\* or raise_for_status on another error status), or a JSON object
_check_existing_package(fl, response, definition) ==
    CASE response.kind = "404" -> "False"
      [] response.kind = "error" -> "False"
      [] response.kind = "ok" ->
           CompareFields(fl, response.json, definition, 1)

\* `not self.force and self._check_existing_package(...)`, then
\* `if self.dry_run`: what is done with the build.  The check is not called
\* when force is set.
DecideIgnoringForce(fl, force_, dry_run_, response, definition) ==
    IF _check_existing_package(fl, response, definition) = "True"
    THEN "skip"
    ELSE IF dry_run_ THEN "dry_run" ELSE "proceed"

Decide(fl, force_, dry_run_, response, definition) ==
    IF ~ force_ /\ _check_existing_package(fl, response, definition) = "True"
    THEN "skip"
    ELSE IF dry_run_ THEN "dry_run" ELSE "proceed"

------------------------------------------------------------------------------
\* The runs of the orchestrators: prepare_package_dir of PackagePreparer on
\* one release of one package, build_package of PackageBuilder on one package

MaxBuilds == 2

\* the fields of a definition or of a manifest that take more than one value
\* here; each may also be missing
Homepages == {NoValue, "", "https://home"}

Descriptions == {"a package", "another package"}

\* the other compared fields
FixedFields(fl) ==
    { fields_to_compare(fl)[i] : i \in 1..Len(fields_to_compare(fl)) }
        \ {"homepage", "description"}

Definition(fl, given, homepage, description) ==
    [k \in FixedFields(fl) \cup given |->
        CASE k = "homepage" -> homepage
          [] k = "description" -> description
          [] OTHER -> ValueOf(k)]

\* prepare.yaml, with or without a homepage
PrepareDatas ==
    { Definition("prepare", given \cup {"description"}, h, "a package") :
        given \in SUBSET {"homepage"}, h \in Homepages }

\* a Package instance: every compared field is an attribute
PackageInstances ==
    { Definition("build", {"homepage", "description"}, h, "a package") :
        h \in Homepages }

\* what the store may answer for a manifest URL
Responses(fl) ==
    { [kind |-> "404"], [kind |-> "error"] }
    \cup { [kind |-> "ok",
            json |-> Definition(fl, given \cup {"description"}, h, d)] :
             given \in SUBSET {"homepage"}, h \in Homepages,
             d \in Descriptions }

\* the output directory after os.makedirs
EmptyDir == [exists |-> TRUE, mip_json |-> FALSE]

\* what a step of an orchestrator leaves alone
OrchestratorFrame ==
    UNCHANGED <<dvars, cvars, svars, mvars, bvars, rvars, avars, ivars, evars,
                ovars, lvars, nvars>>

InitOrchestrator ==
    /\ OrchestratorIdle
    /\ StoreIdle
    /\ ManifestIdle
    /\ BatchIdle
    /\ PublisherIdle
    /\ DecoderIdle
    /\ CollectorIdle
    /\ EmitterIdle
    /\ AcquirerIdle
    /\ AssemblerIdle
    /\ EntryPointsIdle
    /\ OutputIdle
    /\ ReleasesIdle
    /\ NamingIdle

\* the run returns (or raises) r
Return(r) ==
    /\ kresult' = r
    /\ kpc' = "returned"

\* lines 445-453: the except clause of prepare_package_dir
PrepareFails(step) ==
    /\ raised_in' = step
    /\ staged' = NoDir
    /\ Return("False")
    /\ UNCHANGED <<flow, force, dry_run, keep_dirs, package_data, remote,
                   fetched, builds_left, decision, bucket>>

\* a step of the try block that either completes or raises
PrepareStepOrRaise(step, next) ==
    /\ flow = "prepare"
    /\ kpc = step
    /\ \/ /\ kpc' = next
          /\ UNCHANGED <<flow, force, dry_run, keep_dirs, package_data,
                         remote, fetched, builds_left, decision, staged,
                         raised_in, kresult, bucket>>
       \/ PrepareFails(step)
    /\ OrchestratorFrame

\* prepare_package_dir up to the loop over the matching builds (lines
\* 349-385)
PreparePackageDir ==
    /\ kpc = "idle"
    /\ flow' = "prepare"
    /\ force' \in BOOLEAN
    /\ dry_run' \in BOOLEAN
    /\ package_data' \in PrepareDatas
    /\ \E yaml \in {"missing", "other_version", "ok"},
          matching_builds \in 0..MaxBuilds :
          IF yaml = "missing" \/ matching_builds = 0
          THEN /\ Return("True")
               /\ builds_left' = 0
          ELSE IF yaml = "other_version"
          THEN /\ Return("False")
               /\ builds_left' = 0
          ELSE /\ kpc' = "next_build"
               /\ builds_left' = matching_builds
               /\ UNCHANGED kresult
    /\ UNCHANGED <<keep_dirs, remote, fetched, decision, staged, raised_in,
                   bucket>>
    /\ OrchestratorFrame

\* `for build in matching_builds`, and the return after the loop (455)
PrepareNextBuild ==
    /\ flow = "prepare"
    /\ kpc = "next_build"
    /\ IF builds_left = 0
       THEN /\ Return("True")
            /\ UNCHANGED <<remote, fetched, decision, staged>>
       ELSE /\ remote' \in Responses("prepare")
            /\ fetched' = FALSE
            /\ decision' = "none"
            /\ staged' = NoDir
            /\ kpc' = "pending"
            /\ UNCHANGED kresult
    /\ UNCHANGED <<flow, force, dry_run, keep_dirs, package_data,
                   builds_left, raised_in, bucket>>
    /\ OrchestratorFrame

\* lines 390-411: skip, report the dry run, or make the output directory
PrepareDecide ==
    /\ flow = "prepare"
    /\ kpc = "pending"
    /\ decision' = Decide(flow, force, dry_run, remote, package_data)
    /\ fetched' = ~ force
    /\ IF decision' = "proceed"
       THEN /\ staged' = EmptyDir
            /\ kpc' = "acquiring"
            /\ UNCHANGED builds_left
       ELSE /\ kpc' = "next_build"
            /\ builds_left' = builds_left - 1
            /\ UNCHANGED staged
    /\ UNCHANGED <<flow, force, dry_run, keep_dirs, package_data, remote,
                   raised_in, kresult, bucket>>
    /\ OrchestratorFrame

\* _prepare_package: download_zip or clone_git (lines 256-265)
PrepareAcquire ==
    /\ kpc = "acquiring"
    /\ PrepareStepOrRaise("acquiring", "computing_paths")

\* _prepare_package: the addpaths list (lines 268-286)
PrepareComputePaths ==
    /\ kpc = "computing_paths"
    /\ PrepareStepOrRaise("computing_paths", "laying_out")

\* _prepare_package: mex removal and the load/unload scripts (288-300)
PrepareLayOut ==
    /\ kpc = "laying_out"
    /\ PrepareStepOrRaise("laying_out", "collecting_symbols")

\* _prepare_package: symbol collection (lines 303-314)
PrepareCollectSymbols ==
    /\ kpc = "collecting_symbols"
    /\ PrepareStepOrRaise("collecting_symbols", "writing_manifest")

\* the parameters of PackagePreparer._create_mip_json (line 319), and the
\* keyword arguments of the call at lines 427-430
CreateMipJsonParameters ==
    {"mhl_dir", "yaml_data", "build", "exposed_symbols", "prepare_duration",
     "mhl_filename"}

CreateMipJsonKeywords == {"release"}

\* lines 427-443: the call of _create_mip_json, which Python rejects with
\* TypeError when it passes a keyword the function does not have; then the
\* compile script, and the next build
PrepareWriteManifest ==
    /\ flow = "prepare"
    /\ kpc = "writing_manifest"
    /\ IF CreateMipJsonKeywords \subseteq CreateMipJsonParameters
       THEN /\ staged' = [staged EXCEPT !.mip_json = TRUE]
            /\ kpc' = "next_build"
            /\ builds_left' = builds_left - 1
            /\ UNCHANGED <<flow, force, dry_run, keep_dirs, package_data,
                           remote, fetched, decision, raised_in, kresult,
                           bucket>>
       ELSE PrepareFails("writing_manifest")
    /\ OrchestratorFrame

\* the except and finally clauses of build_package (lines 325-334)
BuildFails(step) ==
    /\ raised_in' = step
    /\ staged' = IF keep_dirs THEN staged ELSE NoDir
    /\ Return("False")
    /\ UNCHANGED <<flow, force, dry_run, keep_dirs, package_data, remote,
                   fetched, builds_left, decision, bucket>>

\* a step of build_package's try block that either completes or raises
BuildStepOrRaise(step, next) ==
    /\ flow = "build"
    /\ kpc = step
    /\ \/ /\ kpc' = next
          /\ UNCHANGED <<flow, force, dry_run, keep_dirs, package_data,
                         remote, fetched, builds_left, decision, staged,
                         raised_in, kresult, bucket>>
       \/ BuildFails(step)
    /\ OrchestratorFrame

\* build_package up to the existence check (lines 253-263): _load_package
\* gives the Package instance, or None
BuildPackage ==
    /\ kpc = "idle"
    /\ flow' = "build"
    /\ force' \in BOOLEAN
    /\ dry_run' \in BOOLEAN
    /\ keep_dirs' \in BOOLEAN
    /\ \/ /\ package_data' \in PackageInstances
          /\ remote' \in Responses("build")
          /\ builds_left' = 1
          /\ kpc' = "pending"
          /\ UNCHANGED kresult
       \/ /\ Return("False")
          /\ UNCHANGED <<package_data, remote, builds_left>>
    /\ UNCHANGED <<fetched, decision, staged, raised_in, bucket>>
    /\ OrchestratorFrame

\* lines 266-278: skip, report the dry run, or make the working directory
BuildDecide ==
    /\ flow = "build"
    /\ kpc = "pending"
    /\ decision' = Decide(flow, force, dry_run, remote, package_data)
    /\ fetched' = ~ force
    /\ builds_left' = 0
    /\ IF decision' = "proceed"
       THEN /\ staged' = EmptyDir
            /\ kpc' = "building"
            /\ UNCHANGED kresult
       ELSE /\ Return("True")
            /\ UNCHANGED staged
    /\ UNCHANGED <<flow, force, dry_run, keep_dirs, package_data, remote,
                   raised_in, bucket>>
    /\ OrchestratorFrame

\* lines 282-298: package.build(mhl_build_dir)
BuildBuild ==
    /\ kpc = "building"
    /\ BuildStepOrRaise("building", "writing_manifest")

\* line 302: PackageBuilder._create_mip_json
BuildWriteManifest ==
    /\ flow = "build"
    /\ kpc = "writing_manifest"
    /\ \/ /\ staged' = [staged EXCEPT !.mip_json = TRUE]
          /\ kpc' = "bundling"
          /\ UNCHANGED <<flow, force, dry_run, keep_dirs, package_data,
                         remote, fetched, builds_left, decision, raised_in,
                         kresult, bucket>>
       \/ BuildFails("writing_manifest")
    /\ OrchestratorFrame

\* lines 305-312: the .mhl file and the standalone mip.json
BuildBundle ==
    /\ kpc = "bundling"
    /\ BuildStepOrRaise("bundling", "uploading_archive")

\* line 319: the archive goes to the store, or the upload raises
BuildUploadArchive ==
    /\ flow = "build"
    /\ kpc = "uploading_archive"
    /\ \/ /\ bucket' = [bucket EXCEPT !.mhl = 1]
          /\ kpc' = "uploading_sidecar"
          /\ UNCHANGED <<flow, force, dry_run, keep_dirs, package_data,
                         remote, fetched, builds_left, decision, staged,
                         raised_in, kresult>>
       \/ BuildFails("uploading_archive")
    /\ OrchestratorFrame

\* lines 320-334: the sidecar goes to the store and the run succeeds, or the
\* upload raises
BuildUploadSidecar ==
    /\ flow = "build"
    /\ kpc = "uploading_sidecar"
    /\ \/ /\ bucket' = [bucket EXCEPT !.json = 1]
          /\ staged' = IF keep_dirs THEN staged ELSE NoDir
          /\ Return("True")
          /\ UNCHANGED <<flow, force, dry_run, keep_dirs, package_data,
                         remote, fetched, builds_left, decision, raised_in>>
       \/ BuildFails("uploading_sidecar")
    /\ OrchestratorFrame

NextOrchestrator ==
    \/ PreparePackageDir
    \/ PrepareNextBuild
    \/ PrepareDecide
    \/ PrepareAcquire
    \/ PrepareComputePaths
    \/ PrepareLayOut
    \/ PrepareCollectSymbols
    \/ PrepareWriteManifest
    \/ BuildPackage
    \/ BuildDecide
    \/ BuildBuild
    \/ BuildWriteManifest
    \/ BuildBundle
    \/ BuildUploadArchive
    \/ BuildUploadSidecar

SpecOrchestrator == InitOrchestrator /\ [][NextOrchestrator]_vars

------------------------------------------------------------------------------
\* The batch operations: prepare_all_packages, bundle_and_upload_all,
\* upload_all, build_all_packages

\* the entries a batch may find: package directories, .dir directories or
\* .mhl files, by name
BatchEntries == { <<"a">>, <<"b">>, <<"c">> }

\* what a batch returns when its directory does not exist, and when the
\* directory holds nothing to process
WhenNoDirectory(kind) == IF kind = "upload_all" THEN "True" ELSE "False"

WhenNothingFound(kind) ==
    IF kind \in {"bundle_and_upload_all", "upload_all"} THEN "True"
    ELSE "False"

\* the keyword-only parameters without default of the function the loop of
\* a batch calls, and the keywords the call passes: prepare_package_dir is
\* `(self, package_dir, *, release)` and is called as
\* `self.prepare_package_dir(package_dir)`
RequiredKeywords(kind) ==
    IF kind = "prepare_all_packages" THEN {"release"} ELSE {}

PassedKeywords(kind) == {}

\* `if not success: ...; break`
LoopAfter(rest, failed) == IF failed THEN <<>> ELSE rest

\* what a batch leaves alone
BatchFrame ==
    UNCHANGED <<dvars, cvars, svars, mvars, kvars, uvars, rvars, avars, ivars,
                evars, ovars, lvars, nvars>>

InitBatch ==
    /\ BatchIdle
    /\ ManifestIdle
    /\ OrchestratorIdle
    /\ StoreIdle
    /\ PublisherIdle
    /\ DecoderIdle
    /\ CollectorIdle
    /\ EmitterIdle
    /\ AcquirerIdle
    /\ AssemblerIdle
    /\ EntryPointsIdle
    /\ OutputIdle
    /\ ReleasesIdle
    /\ NamingIdle

\* a batch up to its loop: the directory test, the listing, the test for
\* nothing found, and `sorted(...)`
StartBatch(kind) ==
    /\ bpc = "idle"
    /\ batch' = kind
    /\ \E exists \in BOOLEAN, found \in SUBSET BatchEntries :
          /\ ~ exists => found = {}
          /\ listing' \in Orders(found)
          /\ failing' \in SUBSET found
          /\ IF ~ exists
             THEN /\ bresult' = WhenNoDirectory(kind)
                  /\ bpc' = "returned"
                  /\ queue' = <<>>
             ELSE IF found = {}
             THEN /\ bresult' = WhenNothingFound(kind)
                  /\ bpc' = "returned"
                  /\ queue' = <<>>
             ELSE /\ bresult' = NoValue
                  /\ bpc' = "looping"
                  /\ queue' = sorted(listing')
    /\ UNCHANGED <<processed, in_place>>
    /\ BatchFrame

PrepareAllPackages ==
    /\ bpc = "idle"
    /\ StartBatch("prepare_all_packages")

BundleAndUploadAll ==
    /\ bpc = "idle"
    /\ StartBatch("bundle_and_upload_all")

UploadAll ==
    /\ bpc = "idle"
    /\ StartBatch("upload_all")

BuildAllPackages ==
    /\ bpc = "idle"
    /\ StartBatch("build_all_packages")

\* one iteration of the loop: the call of the per-package function, which
\* Python rejects with TypeError when a required keyword is not passed; the
\* function processes the package and returns whether it succeeded
ProcessNextPackage ==
    /\ bpc = "looping"
    /\ queue # <<>>
    /\ IF ~ (RequiredKeywords(batch) \subseteq PassedKeywords(batch))
       THEN /\ bresult' = "TypeError"
            /\ bpc' = "returned"
            /\ UNCHANGED <<queue, processed, in_place>>
       ELSE LET package == Head(queue)
                failed == package \in failing
            IN  /\ processed' = Append(processed, package)
                /\ in_place' = IF failed THEN in_place
                               ELSE in_place \cup {package}
                /\ queue' = LoopAfter(Tail(queue), failed)
                /\ bresult' = IF failed THEN "False" ELSE bresult
                /\ UNCHANGED bpc
    /\ UNCHANGED <<batch, listing, failing>>
    /\ BatchFrame

\* `return all_success`, after the loop
ReturnAllSuccess ==
    /\ bpc = "looping"
    /\ queue = <<>>
    /\ bresult' = IF bresult = "False" THEN "False" ELSE "True"
    /\ bpc' = "returned"
    /\ UNCHANGED <<batch, listing, failing, queue, processed, in_place>>
    /\ BatchFrame

NextBatch ==
    \/ PrepareAllPackages
    \/ BundleAndUploadAll
    \/ UploadAll
    \/ BuildAllPackages
    \/ ProcessNextPackage
    \/ ReturnAllSuccess

SpecBatch == InitBatch /\ [][NextBatch]_vars

------------------------------------------------------------------------------
\* The publishers: bundle_and_upload_package of PackageBundler and
\* upload_package of PackageUploader, run on one package again and again

MaxRuns == 2

\* the builds the local files of a run may come from
MaxBuildNumber == 2

\* what a run leaves alone
PublisherFrame ==
    UNCHANGED <<dvars, cvars, svars, mvars, kvars, bvars, avars, ivars, evars,
                ovars, lvars, nvars>>

InitPublisher ==
    /\ PublisherIdle
    /\ StoreIdle
    /\ ManifestIdle
    /\ OrchestratorIdle
    /\ BatchIdle
    /\ DecoderIdle
    /\ CollectorIdle
    /\ EmitterIdle
    /\ AcquirerIdle
    /\ AssemblerIdle
    /\ EntryPointsIdle
    /\ OutputIdle
    /\ ReleasesIdle
    /\ NamingIdle

\* An upload whose failure is passed over.
AfterUploadIgnoringFailure(ok, next) == next

\* where a run stands after self._upload_to_r2(...): at the next statement
\* of the try block, or in the except clause when the upload raised
AfterUpload(ok, next) == IF ok THEN next ELSE "except"

\* a new run begins: it returns r at once, or goes to position pc
Begin(fn, dry, from_build, r, pc) ==
    /\ rpc \in {"idle", "returned"}
    /\ nruns < MaxRuns
    /\ nruns' = nruns + 1
    /\ run' = [fn |-> fn, dry_run |-> dry, build |-> from_build]
    /\ uploads' = <<>>
    /\ rresult' = r
    /\ rpc' = pc
    /\ UNCHANGED bucket
    /\ PublisherFrame

\* bundle_and_upload_package up to the try block (lines 131-163): a name
\* that is no .dir is passed over, a missing or unreadable mip.json fails
\* the run, a dry run reports and succeeds
BundleAndUploadPackage ==
    /\ rpc \in {"idle", "returned"}
    /\ \E dry \in BOOLEAN, from_build \in 1..MaxBuildNumber,
          dir \in {"not_dot_dir", "no_mip_json", "bad_mip_json", "ok"} :
          CASE dir = "not_dot_dir" ->
                 Begin("bundle_and_upload_package", dry, from_build,
                       "True", "returned")
            [] dir \in {"no_mip_json", "bad_mip_json"} ->
                 Begin("bundle_and_upload_package", dry, from_build,
                       "False", "returned")
            [] dir = "ok" /\ dry ->
                 Begin("bundle_and_upload_package", dry, from_build,
                       "True", "returned")
            [] dir = "ok" /\ ~ dry ->
                 Begin("bundle_and_upload_package", dry, from_build,
                       NoValue, "bundling")

\* lines 166-179: the .mhl file and the standalone mip.json are made in the
\* temporary directory, or making them raises
BundleCreateMhl ==
    /\ rpc = "bundling"
    /\ \/ /\ rpc' = "uploading_archive"
          /\ UNCHANGED rresult
       \/ /\ rpc' = "returned"
          /\ rresult' = "False"
    /\ UNCHANGED <<run, uploads, nruns, bucket>>
    /\ PublisherFrame

\* upload_package up to the try block (lines 108-121): a missing .mip.json
\* file fails the run, a dry run reports and succeeds
UploadPackage ==
    /\ rpc \in {"idle", "returned"}
    /\ \E dry \in BOOLEAN, from_build \in 1..MaxBuildNumber,
          mip_json_exists \in BOOLEAN :
          IF ~ mip_json_exists
          THEN Begin("upload_package", dry, from_build, "False", "returned")
          ELSE IF dry
          THEN Begin("upload_package", dry, from_build, "True", "returned")
          ELSE Begin("upload_package", dry, from_build, NoValue,
                     "uploading_archive")

\* self._upload_to_r2(mhl_path, mhl_key): the archive object is replaced, or
\* the upload raises and the except clause returns False
UploadArchive ==
    /\ rpc = "uploading_archive"
    /\ \E ok \in BOOLEAN :
          LET after == AfterUpload(ok, "uploading_sidecar")
          IN  /\ uploads' = Append(uploads, [object |-> "mhl", ok |-> ok])
              /\ bucket' = IF ok THEN [bucket EXCEPT !.mhl = run.build]
                           ELSE bucket
              /\ rpc' = IF after = "except" THEN "returned" ELSE after
              /\ rresult' = IF after = "except" THEN "False" ELSE rresult
    /\ UNCHANGED <<run, nruns>>
    /\ PublisherFrame

\* self._upload_to_r2(mip_json_path, mip_json_key), then `return True`; or
\* the upload raises and the except clause returns False
UploadSidecar ==
    /\ rpc = "uploading_sidecar"
    /\ \E ok \in BOOLEAN :
          LET after == AfterUpload(ok, "return")
          IN  /\ uploads' = Append(uploads, [object |-> "json", ok |-> ok])
              /\ bucket' = IF ok THEN [bucket EXCEPT !.json = run.build]
                           ELSE bucket
              /\ rpc' = "returned"
              /\ rresult' = IF after = "except" THEN "False" ELSE "True"
    /\ UNCHANGED <<run, nruns>>
    /\ PublisherFrame

NextPublisher ==
    \/ BundleAndUploadPackage
    \/ BundleCreateMhl
    \/ UploadPackage
    \/ UploadArchive
    \/ UploadSidecar

SpecPublisher == InitPublisher /\ [][NextPublisher]_vars

------------------------------------------------------------------------------
\* Source acquisition: download_and_extract_zip and
\* clone_repository_and_remove_git of mip_build_helpers, and _prepare_package
\* of the preparer with its own download_and_extract_zip and
\* clone_git_repository

\* A file or directory name is its sequence of parts, the extensions being
\* parts of their own.
nGit == <<".git">>
nSrc == <<"src">>
nSub == <<"sub">>
nHead == <<"HEAD">>
nKw64 == <<"k", ".mexw64">>
nKa64 == <<"k", ".mexa64">>
nKmac == <<"k", ".mexmac">>
nKbak == <<"k", ".mexw64", ".bak">>
nFm == <<"f", ".m">>
nDglx == <<"d", ".mexglx">>
nLoad == <<"load_package", ".m">>
nUnload == <<"unload_package", ".m">>

Dir(path) == [path |-> path, dir |-> TRUE]
PlainFile(path) == [path |-> path, dir |-> FALSE]

\* the entries a zip file or a repository may hold
ContentCandidates ==
    { Dir(<<nGit>>), PlainFile(<<nGit, nHead>>),
      Dir(<<nSrc>>), Dir(<<nSrc, nGit>>), PlainFile(<<nSrc, nGit, nHead>>),
      Dir(<<nSrc, nSub>>), Dir(<<nSrc, nSub, nGit>>),
      Dir(<<nDglx>>), PlainFile(<<nDglx, nGit>>), PlainFile(<<nDglx, nKw64>>),
      PlainFile(<<nKw64>>), PlainFile(<<nKbak>>),
      PlainFile(<<nSrc, nKa64>>), PlainFile(<<nSrc, nFm>>),
      PlainFile(<<nSrc, nSub, nKmac>>) }

MaxContentEntries == 4

\* every tree of at most MaxContentEntries entries in which each entry's
\* parent directory exists
Contents ==
    { t \in SUBSET ContentCandidates :
        /\ Cardinality(t) <= MaxContentEntries
        /\ \A e \in t : Len(e.path) > 1 => Dir(Parent(e.path)) \in t }

\* os.walk's `dirs` and `files` for the directory root of tree t
SubDirs(t, root) ==
    {e.path : e \in {x \in t : x.dir /\ Len(x.path) = Len(root) + 1
                                     /\ Parent(x.path) = root}}

FilesIn(t, root) ==
    {e.path : e \in {x \in t : ~ x.dir /\ Len(x.path) = Len(root) + 1
                                       /\ Parent(x.path) = root}}

\* shutil.rmtree(p)
rmtree(t, p) == {e \in t : ~ IsPrefix(p, e.path)}

\* os.remove of each of the files
RemoveFiles(t, files) == {e \in t : e.path \notin files}

\* A walk that leaves `dirs` as os.walk listed it.
DirsLeftAsListed(dirs, root) == dirs

\* `dirs` after the body of the loop at root: dirs.remove(".git") when
\* ".git" in dirs
DirsAfterRemove(dirs, root) == dirs \ {Append(root, nGit)}

\* prepare_packages.py:290
mex_extensions ==
    << <<".mexw64">>, <<".mexa64">>, <<".mexmaci64">>, <<".mexmaca64">>,
       <<".mexw32">>, <<".mexglx">>, <<".mexmac">> >>

\* A test against the first extension of the list only.
EndsWithFirst(file, exts) == EndsWith(file, exts[1])

\* any(file.endswith(ext) for ext in exts)
AnyEndsWith(file, exts) == \E i \in 1..Len(exts) : EndsWith(file, exts[i])

\* the files of tree t, at any depth, that the removal loop would remove
MexFiles(t) ==
    {e.path : e \in {x \in t : ~ x.dir
                               /\ AnyEndsWith(Name(x.path), mex_extensions)}}

AcquirerFrame ==
    UNCHANGED <<dvars, cvars, svars, mvars, kvars, uvars, bvars, rvars, ivars,
                evars, ovars, lvars, nvars>>

InitAcquirer ==
    /\ acq = NoAcquisition
    /\ apc = "idle"
    /\ content \in Contents
    /\ dest = {}
    /\ temp_download = FALSE
    /\ to_walk = <<>>
    /\ walked = <<>>
    /\ seen_mex = <<>>
    /\ aresult = NoValue
    /\ ManifestIdle
    /\ OrchestratorIdle
    /\ StoreIdle
    /\ BatchIdle
    /\ PublisherIdle
    /\ DecoderIdle
    /\ CollectorIdle
    /\ EmitterIdle
    /\ AssemblerIdle
    /\ EntryPointsIdle
    /\ OutputIdle
    /\ ReleasesIdle
    /\ NamingIdle

\* the call raises exception e
AcquirerRaises(e) ==
    /\ apc' = "raised"
    /\ aresult' = e

\* where the call stands once the source is acquired: _prepare_package goes
\* on to compute the paths, the helpers return
Acquired ==
    IF acq.fn = "_prepare_package"
    THEN /\ apc' = "computing_paths"
         /\ UNCHANGED aresult
    ELSE /\ apc' = "returned"
         /\ aresult' = NoValue

\* build_helpers.download_and_extract_zip(url, extract_dir) is called
DownloadAndExtractZip ==
    /\ apc = "idle"
    /\ acq' = [fn |-> "download_and_extract_zip"]
    /\ apc' = "downloading"
    /\ UNCHANGED <<content, dest, temp_download, to_walk, walked, seen_mex,
                   aresult>>
    /\ AcquirerFrame

\* build_helpers.clone_repository_and_remove_git(url, clone_dir) is called
CloneRepositoryAndRemoveGit ==
    /\ apc = "idle"
    /\ acq' = [fn |-> "clone_repository_and_remove_git"]
    /\ apc' = "cloning"
    /\ UNCHANGED <<content, dest, temp_download, to_walk, walked, seen_mex,
                   aresult>>
    /\ AcquirerFrame

\* _prepare_package, lines 248-266: the source keys of prepare.yaml decide
\* how the source is acquired
PreparePackage ==
    /\ apc = "idle"
    /\ \E keys \in SUBSET {"download_zip", "clone_git"} :
          /\ acq' = [fn |-> "_prepare_package", keys |-> keys]
          /\ IF keys = {"download_zip", "clone_git"}
             THEN AcquirerRaises("ValueError")
             ELSE /\ apc' = IF "download_zip" \in keys THEN "downloading"
                            ELSE IF "clone_git" \in keys THEN "cloning"
                            ELSE "computing_paths"
                  /\ UNCHANGED aresult
    /\ UNCHANGED <<content, dest, temp_download, to_walk, walked, seen_mex>>
    /\ AcquirerFrame

\* requests.get, raise_for_status, and the response written to
\* temp_download.zip
Download ==
    /\ apc = "downloading"
    /\ \/ /\ temp_download' = TRUE
          /\ apc' = "extracting"
          /\ UNCHANGED aresult
       \/ /\ AcquirerRaises("RequestException")
          /\ UNCHANGED temp_download
    /\ UNCHANGED <<acq, content, dest, to_walk, walked, seen_mex>>
    /\ AcquirerFrame

\* with zipfile.ZipFile(download_file, 'r') as zip_ref:
\*     zip_ref.extractall(...)
\* the members are extracted, or the file is no zip file and ZipFile raises
Extract ==
    /\ apc = "extracting"
    /\ \/ /\ dest' = content
          /\ apc' = "removing_temp"
          /\ UNCHANGED aresult
       \/ /\ AcquirerRaises("BadZipFile")
          /\ UNCHANGED dest
    /\ UNCHANGED <<acq, content, temp_download, to_walk, walked, seen_mex>>
    /\ AcquirerFrame

\* os.remove(download_file)
RemoveTemp ==
    /\ apc = "removing_temp"
    /\ temp_download' = FALSE
    /\ Acquired
    /\ UNCHANGED <<acq, content, dest, to_walk, walked, seen_mex>>
    /\ AcquirerFrame

\* subprocess.run(["git", "clone", ...], check=True): the clone is in
\* place, or git exits non-zero and CalledProcessError is raised
Clone ==
    /\ apc = "cloning"
    /\ \/ /\ dest' = content
          /\ to_walk' = <<Root>>
          /\ apc' = "removing_git"
          /\ UNCHANGED aresult
       \/ /\ AcquirerRaises("CalledProcessError")
          /\ UNCHANGED <<dest, to_walk>>
    /\ UNCHANGED <<acq, content, temp_download, walked, seen_mex>>
    /\ AcquirerFrame

\* one iteration of `for root, dirs, files in os.walk(...)` of the .git
\* removal: os.walk yields the next directory, the body removes its .git
\* directory and takes it out of dirs, and os.walk goes on into what is
\* left in dirs, in the order the directory was listed in
RemoveGitStep ==
    /\ apc = "removing_git"
    /\ to_walk # <<>>
    /\ LET root == Head(to_walk)
           dirs == SubDirs(dest, root)
           git_dir == Append(root, nGit)
       IN  /\ dest' = IF git_dir \in dirs THEN rmtree(dest, git_dir) ELSE dest
           /\ \E order \in Orders(DirsAfterRemove(dirs, root)) :
                 to_walk' = order \o Tail(to_walk)
           /\ walked' = Append(walked, root)
    /\ UNCHANGED <<acq, apc, content, temp_download, seen_mex, aresult>>
    /\ AcquirerFrame

\* os.walk is exhausted
RemoveGitDone ==
    /\ apc = "removing_git"
    /\ to_walk = <<>>
    /\ Acquired
    /\ UNCHANGED <<acq, content, dest, temp_download, to_walk, walked,
                   seen_mex>>
    /\ AcquirerFrame

\* _prepare_package, lines 268-286: the paths are computed; the tree is
\* read, not changed
ComputePaths ==
    /\ apc = "computing_paths"
    /\ apc' = "removing_mex"
    /\ to_walk' = <<Root>>
    /\ walked' = <<>>
    /\ UNCHANGED <<acq, content, dest, temp_download, seen_mex, aresult>>
    /\ AcquirerFrame

\* one iteration of `for root, dirs, files in os.walk(mhl_dir)` of the mex
\* removal (lines 292-297)
RemoveMexStep ==
    /\ apc = "removing_mex"
    /\ to_walk # <<>>
    /\ LET root == Head(to_walk)
           files == FilesIn(dest, root)
           mex == {f \in files : AnyEndsWith(Name(f), mex_extensions)}
       IN  /\ dest' = RemoveFiles(dest, mex)
           /\ \E order \in Orders(SubDirs(dest, root)) :
                 to_walk' = order \o Tail(to_walk)
           /\ walked' = Append(walked, root)
    /\ UNCHANGED <<acq, apc, content, temp_download, seen_mex, aresult>>
    /\ AcquirerFrame

\* line 300: create_load_and_unload_scripts(mhl_dir, all_paths) writes the
\* two scripts into mhl_dir
CreateScripts ==
    /\ apc = "removing_mex"
    /\ to_walk = <<>>
    /\ seen_mex' = Append(seen_mex, [at |-> "scripts", mex |-> MexFiles(dest)])
    /\ dest' = dest \cup {PlainFile(<<nLoad>>), PlainFile(<<nUnload>>)}
    /\ apc' = "collecting"
    /\ UNCHANGED <<acq, content, temp_download, to_walk, walked, aresult>>
    /\ AcquirerFrame

\* lines 303-314: the symbols are collected and returned
CollectSymbols ==
    /\ apc = "collecting"
    /\ seen_mex' = Append(seen_mex, [at |-> "symbols", mex |-> MexFiles(dest)])
    /\ apc' = "returned"
    /\ aresult' = "exposed_symbols"
    /\ UNCHANGED <<acq, content, dest, temp_download, to_walk, walked>>
    /\ AcquirerFrame

NextAcquirer ==
    \/ DownloadAndExtractZip
    \/ CloneRepositoryAndRemoveGit
    \/ PreparePackage
    \/ Download
    \/ Extract
    \/ RemoveTemp
    \/ Clone
    \/ RemoveGitStep
    \/ RemoveGitDone
    \/ ComputePaths
    \/ RemoveMexStep
    \/ CreateScripts
    \/ CollectSymbols

SpecAcquirer == InitAcquirer /\ [][NextAcquirer]_vars

------------------------------------------------------------------------------
\* Index Assembler: assemble_index of IndexAssembler, and the keys the
\* uploaders store sidecars under

\* A key or a name is its sequence of parts. No part is the beginning of
\* another, so comparing two sequences part by part, each part by its place
\* in Python's string order, is Python's comparison of the strings.
TokenRank(t) ==
    CASE t = ".mhl" -> 1
      [] t = ".mip.json" -> 2
      [] t = ".txt" -> 3
      [] t = "/" -> 4
      [] t = "B" -> 5
      [] t = "a" -> 6
      [] t = "b" -> 7
      [] t = "core" -> 8
      [] t = "packages" -> 9

RECURSIVE KeyLess(_, _)
KeyLess(s, t) ==
    IF s = <<>> THEN t # <<>>
    ELSE IF t = <<>> THEN FALSE
    ELSE IF Head(s) = Head(t) THEN KeyLess(Tail(s), Tail(t))
    ELSE TokenRank(Head(s)) < TokenRank(Head(t))

\* str.lower()
Lower(s) == [i \in 1..Len(s) |-> IF s[i] = "B" THEN "b" ELSE s[i]]

\* self.bucket_prefix of each class
bucket_prefix(cls) ==
    IF cls = "PackageBuilder" THEN <<"packages", "/", "core">>
    ELSE <<"core", "/", "packages">>

\* f"{self.bucket_prefix}/{mhl_filename}.mip.json"
mip_json_key(cls, mhl_filename) ==
    bucket_prefix(cls) \o <<"/">> \o mhl_filename \o <<".mip.json">>

\* f"{self.bucket_prefix}/{mhl_filename}"
mhl_key(cls, mhl_filename) == bucket_prefix(cls) \o <<"/">> \o mhl_filename

Uploaders == {"PackageBundler", "PackageUploader", "PackageBuilder"}

\* what get_object, decode and json.loads make of an object
Metadata(name, has_urls) ==
    [kind |-> "object", name |-> name, has_urls |-> has_urls]

Bodies ==
    {Metadata(n, u) : n \in {<<"a">>, <<"B">>}, u \in BOOLEAN}
      \cup {[kind |-> k] : k \in {"ClientError", "EndpointConnectionError",
                                  "UnicodeDecodeError", "JSONDecodeError"}}

\* the objects a bucket may hold: the sidecars the uploaders stored, each
\* under the key its uploader gives it, and an archive
ObjectCandidates ==
    {[key |-> mip_json_key("PackageBundler", <<"a", ".mhl">>),
      by |-> "PackageBundler", body |-> b] : b \in Bodies}
      \cup {[key |-> mip_json_key("PackageUploader", <<"b", ".mhl">>),
             by |-> "PackageUploader", body |-> b] : b \in Bodies}
      \cup {[key |-> mip_json_key("PackageBuilder", <<"a", ".mhl">>),
             by |-> "PackageBuilder", body |-> b] : b \in Bodies}
      \cup {[key |-> mhl_key("PackageBundler", <<"a", ".mhl">>),
             by |-> "PackageBundler", body |-> [kind |-> "archive"]]}

MaxObjects == 2

\* the listings of at most MaxObjects objects, no key twice, in any order
Listings ==
    UNION { { f \in [1..n -> ObjectCandidates] :
                \A i, j \in 1..n : i # j => f[i].key # f[j].key }
            : n \in 0..MaxObjects }

\* pages of list_objects_v2 with Prefix=f"{self.bucket_prefix}/", and the
\* keys of them that end with '.mhl.mip.json' (lines 85-92)
RECURSIVE ListedKeys(_)
ListedKeys(objs) ==
    IF objs = <<>> THEN <<>>
    ELSE LET key == Head(objs).key
             listed ==
                 /\ StartsWith(key, bucket_prefix("IndexAssembler") \o <<"/">>)
                 /\ EndsWith(key, <<".mhl", ".mip.json">>)
         IN  (IF listed THEN <<key>> ELSE <<>>) \o ListedKeys(Tail(objs))

\* A loop over the keys as listed.
AsListed(keys) == keys

RECURSIVE InsertKey(_, _)
InsertKey(x, s) ==
    IF s = <<>> THEN <<x>>
    ELSE IF KeyLess(x, Head(s)) THEN <<x>> \o s
    ELSE <<Head(s)>> \o InsertKey(x, Tail(s))

\* sorted(mip_json_keys)
RECURSIVE sorted_keys(_)
sorted_keys(keys) ==
    IF keys = <<>> THEN <<>>
    ELSE InsertKey(Head(keys), sorted_keys(Tail(keys)))

\* the key of the html sort: p.get('name', '').lower()
NameKey(p) == Lower(p.name)

\* x goes after every element whose key is not greater: the sort is stable
RECURSIVE InsertByName(_, _)
InsertByName(x, s) ==
    IF s = <<>> THEN <<x>>
    ELSE IF KeyLess(NameKey(x), NameKey(Head(s))) THEN <<x>> \o s
    ELSE <<Head(s)>> \o InsertByName(x, Tail(s))

\* sorted(package_metadata, key=lambda p: p.get('name', '').lower())
RECURSIVE sorted_packages(_)
sorted_packages(ps) ==
    IF ps = <<>> THEN <<>>
    ELSE InsertByName(ps[Len(ps)], sorted_packages(SubSeq(ps, 1, Len(ps) - 1)))

\* the object stored under the key
ObjectAt(key) == CHOOSE o \in {objects[i] : i \in 1..Len(objects)} : o.key = key

\* _download_mip_json: the metadata, None after a warning for the two
\* exceptions it catches, or the exception raised
DownloadOutcome(body) ==
    CASE body.kind = "object" -> "metadata"
      [] body.kind \in {"ClientError", "JSONDecodeError"} -> "None"
      [] OTHER -> "raises"

\* the metadata of lines 117-134: the parsed object with the two urls
\* filled in from the key when it lacks them
Backfilled(key, body) ==
    [name |-> body.name,
     urls |-> IF body.has_urls THEN <<"given">>
              ELSE <<"base_url", "/">> \o SubSeq(key, Len(key) - 2, Len(key) - 1),
     from |-> key]

AssemblerFrame ==
    UNCHANGED <<dvars, cvars, svars, mvars, kvars, uvars, bvars, rvars, avars,
                evars, ovars, lvars, nvars>>

InitAssembler ==
    /\ assembler \in [dry_run : BOOLEAN]
    /\ objects \in Listings
    /\ ipc = "idle"
    /\ mip_json_keys = <<>>
    /\ to_download = <<>>
    /\ package_metadata = <<>>
    /\ warned = <<>>
    /\ index_json = NoIndex
    /\ packages_html = NoIndex
    /\ iresult = NoValue
    /\ ManifestIdle
    /\ OrchestratorIdle
    /\ StoreIdle
    /\ BatchIdle
    /\ PublisherIdle
    /\ AcquirerIdle
    /\ DecoderIdle
    /\ CollectorIdle
    /\ EmitterIdle
    /\ EntryPointsIdle
    /\ OutputIdle
    /\ ReleasesIdle
    /\ NamingIdle

\* assemble_index, lines 299-328 up to the loop: a dry run returns True at
\* once; a listing that raises makes the run return False
AssembleIndex ==
    /\ ipc = "idle"
    /\ \/ /\ assembler.dry_run
          /\ ipc' = "returned"
          /\ iresult' = "True"
          /\ UNCHANGED <<mip_json_keys, to_download>>
       \/ /\ ~ assembler.dry_run
          /\ ipc' = "returned"
          /\ iresult' = "False"
          /\ UNCHANGED <<mip_json_keys, to_download>>
       \/ /\ ~ assembler.dry_run
          /\ mip_json_keys' = ListedKeys(objects)
          /\ to_download' = sorted_keys(mip_json_keys')
          /\ ipc' = IF mip_json_keys' = <<>> THEN "writing" ELSE "downloading"
          /\ UNCHANGED iresult
    /\ UNCHANGED <<assembler, objects, package_metadata, warned, index_json,
                   packages_html>>
    /\ AssemblerFrame

\* one iteration of the loop of lines 321-327
DownloadMipJson ==
    /\ ipc = "downloading"
    /\ to_download # <<>>
    /\ LET key == Head(to_download)
           body == ObjectAt(key).body
           outcome == DownloadOutcome(body)
       IN  /\ to_download' = Tail(to_download)
           /\ package_metadata' =
                 IF outcome = "metadata"
                 THEN Append(package_metadata, Backfilled(key, body))
                 ELSE package_metadata
           /\ warned' = IF outcome = "None" THEN Append(warned, key)
                        ELSE warned
           /\ ipc' = IF outcome = "raises" THEN "raised" ELSE ipc
           /\ iresult' = IF outcome = "raises" THEN body.kind ELSE iresult
    /\ UNCHANGED <<assembler, objects, mip_json_keys, index_json,
                   packages_html>>
    /\ AssemblerFrame

\* the loop is over
DownloadsDone ==
    /\ ipc = "downloading"
    /\ to_download = <<>>
    /\ ipc' = "writing"
    /\ UNCHANGED <<assembler, objects, mip_json_keys, to_download,
                   package_metadata, warned, index_json, packages_html,
                   iresult>>
    /\ AssemblerFrame

\* lines 331-371: index.json is written, then packages.html; an exception
\* while writing either makes the run return False
WriteIndex ==
    /\ ipc = "writing"
    /\ LET index_data == [exists |-> TRUE,
                          packages |-> package_metadata,
                          total_packages |-> Len(package_metadata)]
           html == [exists |-> TRUE,
                    rows |-> LET ps == sorted_packages(package_metadata)
                             IN  [i \in 1..Len(ps) |-> ps[i].name]]
       IN  \/ /\ index_json' = index_data
              /\ packages_html' = html
              /\ iresult' = "True"
           \/ /\ index_json' = index_data
              /\ UNCHANGED packages_html
              /\ iresult' = "False"
           \/ /\ UNCHANGED <<index_json, packages_html>>
              /\ iresult' = "False"
    /\ ipc' = "returned"
    /\ UNCHANGED <<assembler, objects, mip_json_keys, to_download,
                   package_metadata, warned>>
    /\ AssemblerFrame

NextAssembler ==
    \/ AssembleIndex
    \/ DownloadMipJson
    \/ DownloadsDone
    \/ WriteIndex

SpecAssembler == InitAssembler /\ [][NextAssembler]_vars

------------------------------------------------------------------------------
\* Entry points: main() of prepare_packages, bundle_and_upload_packages,
\* upload_packages, build_and_upload_packages and assemble_index, each run
\* without --package in the same situation

\* every situation: a missing directory holds nothing, and only packages
\* that were found can fail
Situations ==
    { s \in [directory : BOOLEAN, found : SUBSET BatchEntries,
             failing : SUBSET BatchEntries] :
        /\ s.failing \subseteq s.found
        /\ ~ s.directory => s.found = {} }

\* what the run method of a script returns or raises in situation s: the
\* directory test, the test for nothing found, then the loop that calls the
\* per-package method and stops at the first False
run_all(kind, s) ==
    IF ~ s.directory THEN WhenNoDirectory(kind)
    ELSE IF s.found = {} THEN WhenNothingFound(kind)
    ELSE IF ~ (RequiredKeywords(kind) \subseteq PassedKeywords(kind))
    THEN "TypeError"
    ELSE IF s.failing # {} THEN "False"
    ELSE "True"

\* An exit status that is 1 only for a run that returned False.
ExitOneOnlyForFalse(success) == IF success = "False" THEN 1 ELSE 0

\* `if success: return 0 / else: return 1` under sys.exit(main()); a run
\* method that raises ends the interpreter with a traceback and status 1
main_exit(success) == IF success = "True" THEN 0 ELSE 1

EntryPointsFrame ==
    UNCHANGED <<dvars, cvars, svars, mvars, kvars, uvars, bvars, rvars, avars,
                ivars, ovars, lvars, nvars>>

InitEntryPoints ==
    /\ situation \in Situations
    /\ results = <<>>
    /\ exit_codes = <<>>
    /\ epc = "idle"
    /\ ManifestIdle
    /\ OrchestratorIdle
    /\ StoreIdle
    /\ BatchIdle
    /\ PublisherIdle
    /\ AcquirerIdle
    /\ AssemblerIdle
    /\ DecoderIdle
    /\ CollectorIdle
    /\ EmitterIdle
    /\ OutputIdle
    /\ ReleasesIdle
    /\ NamingIdle

\* the script runs to its end: what its run method gave and its exit status are recorded
Exits(script, success) ==
    /\ script \notin DOMAIN exit_codes
    /\ results' = [e \in DOMAIN results \cup {script} |->
                      IF e = script THEN success ELSE results[e]]
    /\ exit_codes' = [e \in DOMAIN exit_codes \cup {script} |->
                         IF e = script THEN main_exit(success)
                         ELSE exit_codes[e]]
    /\ epc' = "exited"
    /\ UNCHANGED situation
    /\ EntryPointsFrame

PrepareMain ==
    /\ "prepare_packages" \notin DOMAIN exit_codes
    /\ Exits("prepare_packages", run_all("prepare_all_packages", situation))

BundleMain ==
    /\ "bundle_and_upload_packages" \notin DOMAIN exit_codes
    /\ Exits("bundle_and_upload_packages",
             run_all("bundle_and_upload_all", situation))

UploadMain ==
    /\ "upload_packages" \notin DOMAIN exit_codes
    /\ Exits("upload_packages", run_all("upload_all", situation))

BuildMain ==
    /\ "build_and_upload_packages" \notin DOMAIN exit_codes
    /\ Exits("build_and_upload_packages",
             run_all("build_all_packages", situation))

\* assemble_index: a listing that raises gives False; an empty listing
\* still gives an index; a sidecar that cannot be read is left out or its
\* exception leaves the run; writing the index files may fail
AssembleMain ==
    /\ "assemble_index" \notin DOMAIN exit_codes
    /\ \E written \in BOOLEAN, caught \in BOOLEAN :
          Exits("assemble_index",
                IF ~ situation.directory THEN "False"
                ELSE IF situation.failing # {} /\ ~ caught
                THEN "UnicodeDecodeError"
                ELSE IF written THEN "True" ELSE "False")

NextEntryPoints ==
    \/ PrepareMain
    \/ BundleMain
    \/ UploadMain
    \/ BuildMain
    \/ AssembleMain

SpecEntryPoints == InitEntryPoints /\ [][NextEntryPoints]_vars

------------------------------------------------------------------------------
\* Output directory of the preparer: PackagePreparer.__init__ and the builds
\* of prepare_package_dir, over any number of preparers and calls

MaxStagedBuilds == 3

\* A constructor that makes the output directory in every mode.
MakesAlways(dry) == TRUE

\* __init__, lines 204-205: `if not self.dry_run: os.makedirs(...)`
MakesOutputDir(dry) == ~ dry

\* An except clause that leaves the directory as it is.
LeftAsItIs(dir) == dir

\* lines 450-451 of the except clause: the staged directory is removed
RemovedInExcept(dir) == NoStagedDir

\* lines 404-410: an existing directory of the name is removed and a new,
\* empty one is made for build n
MadeFor(n) == [exists |-> TRUE, files_of |-> n, mip_json_of |-> 0]

OutputFrame ==
    UNCHANGED <<dvars, cvars, svars, mvars, kvars, uvars, bvars, rvars, avars,
                ivars, evars, lvars, nvars>>

InitOutput ==
    /\ OutputIdle
    /\ ManifestIdle
    /\ OrchestratorIdle
    /\ StoreIdle
    /\ BatchIdle
    /\ PublisherIdle
    /\ AcquirerIdle
    /\ AssemblerIdle
    /\ EntryPointsIdle
    /\ DecoderIdle
    /\ CollectorIdle
    /\ EmitterIdle
    /\ ReleasesIdle
    /\ NamingIdle

\* PackagePreparer(dry_run, force, output_dir)
NewPreparer ==
    /\ opc \in {"idle", "ready"}
    /\ \E dry \in BOOLEAN, forced \in BOOLEAN :
          /\ preparer' = [made |-> TRUE, dry_run |-> dry, force |-> forced]
          /\ output_exists' = (output_exists \/ MakesOutputDir(dry))
    /\ opc' = "ready"
    /\ UNCHANGED <<staged_dirs, obuild, nbuilds, oresult>>
    /\ OutputFrame

\* one iteration of `for build in matching_builds` up to the try block
\* (lines 387-411): the build is skipped when it is up to date and not
\* forced, reported in a dry run, or its output directory is made anew
NextBuild ==
    /\ opc = "ready"
    /\ nbuilds < MaxStagedBuilds
    /\ \E w \in Wheels, up_to_date \in BOOLEAN :
          IF (~ preparer.force /\ up_to_date) \/ preparer.dry_run
          THEN /\ oresult' = "True"
               /\ UNCHANGED <<staged_dirs, obuild, opc, nbuilds>>
          ELSE /\ nbuilds' = nbuilds + 1
               /\ obuild' = [wheel |-> w, number |-> nbuilds',
                             raised_in |-> "none"]
               /\ staged_dirs' = [staged_dirs EXCEPT ![w] = MadeFor(nbuilds')]
               /\ opc' = "preparing"
               /\ oresult' = NoValue
    /\ UNCHANGED <<preparer, output_exists>>
    /\ OutputFrame

\* the except clause (lines 445-453)
OutputBuildFails ==
    /\ obuild' = [obuild EXCEPT !.raised_in = opc]
    /\ staged_dirs' = [staged_dirs EXCEPT ![obuild.wheel] =
                          RemovedInExcept(staged_dirs[obuild.wheel])]
    /\ oresult' = "False"
    /\ opc' = "ready"

\* self._prepare_package(...) fills the directory, or raises
OutputPreparePackage ==
    /\ opc = "preparing"
    /\ \/ /\ opc' = "writing_manifest"
          /\ UNCHANGED <<staged_dirs, obuild, oresult>>
       \/ OutputBuildFails
    /\ UNCHANGED <<preparer, output_exists, nbuilds>>
    /\ OutputFrame

\* the call of self._create_mip_json(..., release=release_version), which
\* Python rejects with TypeError (see PrepareWriteManifest), then the
\* compile script
OutputWriteManifest ==
    /\ opc = "writing_manifest"
    /\ IF CreateMipJsonKeywords \subseteq CreateMipJsonParameters
       THEN /\ staged_dirs' = [staged_dirs EXCEPT
                                  ![obuild.wheel].mip_json_of = obuild.number]
            /\ oresult' = "True"
            /\ opc' = "ready"
            /\ UNCHANGED obuild
       ELSE OutputBuildFails
    /\ UNCHANGED <<preparer, output_exists, nbuilds>>
    /\ OutputFrame

NextOutput ==
    \/ NewPreparer
    \/ NextBuild
    \/ OutputPreparePackage
    \/ OutputWriteManifest

SpecOutput == InitOutput /\ [][NextOutput]_vars

------------------------------------------------------------------------------
\* The scripts with and without --dry-run: the preparer, the bundler and the
\* uploader, and the index assembler, one script in each behaviour

OnlyPreparer == PublisherIdle /\ ipc = "idle"

OnlyPublisher == OutputIdle /\ ipc = "idle"

OnlyAssembler == OutputIdle /\ PublisherIdle

NextDryRun ==
    \/ OnlyPreparer /\ NewPreparer
    \/ OnlyPreparer /\ NextBuild
    \/ OnlyPreparer /\ OutputPreparePackage
    \/ OnlyPreparer /\ OutputWriteManifest
    \/ OnlyPublisher /\ BundleAndUploadPackage
    \/ OnlyPublisher /\ BundleCreateMhl
    \/ OnlyPublisher /\ UploadPackage
    \/ OnlyPublisher /\ UploadArchive
    \/ OnlyPublisher /\ UploadSidecar
    \/ OnlyAssembler /\ AssembleIndex
    \/ OnlyAssembler /\ DownloadMipJson
    \/ OnlyAssembler /\ DownloadsDone
    \/ OnlyAssembler /\ WriteIndex

\* the assembler is made with either flag over a bucket of at most one object
InitDryRun == InitAssembler /\ Len(objects) <= 1

SpecDryRun == InitDryRun /\ [][NextDryRun]_vars

------------------------------------------------------------------------------
\* The load/unload scripts of prepare_packages.py: its own
\* create_load_and_unload_scripts(mhl_dir, paths), called by _prepare_package
\* with the computed paths

\* "function load_package()" and "function unload_package()"
FunctionLine(name) == [op |-> "function", name |-> name]

\* "pkg_dir = fileparts(mfilename('fullpath'));"
AssignPkgDir == [op |-> "assign_pkg_dir"]

\* "addpath(fullfile(pkg_dir, '{path}'));" and
\* "rmpath(fullfile(pkg_dir, '{path}'));"
AddPathIn(path) == [op |-> "addpath", base |-> "pkg_dir", dir |-> path]

RmPathIn(path) == [op |-> "rmpath", base |-> "pkg_dir", dir |-> path]

\* "end"
EndLine == [op |-> "end"]

\* lines 153-154, `for path in paths: f.write(... addpath ...)`
RECURSIVE AddPathLoop(_)
AddPathLoop(paths) ==
    IF paths = <<>> THEN <<>>
    ELSE <<AddPathIn(Head(paths))>> \o AddPathLoop(Tail(paths))

\* lines 163-164, `for path in paths: f.write(... rmpath ...)`
RECURSIVE RmPathLoop(_)
RmPathLoop(paths) ==
    IF paths = <<>> THEN <<>>
    ELSE <<RmPathIn(Head(paths))>> \o RmPathLoop(Tail(paths))

\* lines 148-165: the two files that are written
preparer_create_load_and_unload_scripts(paths) ==
    [load_m |-> File(<<FunctionLine("load_package"), Comment("add"),
                       AssignPkgDir>> \o AddPathLoop(paths) \o <<EndLine>>),
     unload_m |-> File(<<FunctionLine("unload_package"), Comment("remove"),
                         AssignPkgDir>> \o RmPathLoop(paths) \o <<EndLine>>)]

\* the directories, relative to the script's own directory, that the calls
\* of op in a script are made with, in order; pkg_dir is that directory once
\* it is assigned
RECURSIVE FullfileCalls(_, _, _)
FullfileCalls(script, op, assigned) ==
    IF script = <<>> THEN <<>>
    ELSE LET st == Head(script)
         IN  IF st.op = "assign_pkg_dir"
             THEN FullfileCalls(Tail(script), op, TRUE)
             ELSE IF st.op = op
             THEN <<IF assigned THEN st.dir ELSE <<"undefined">> \o st.dir>>
                     \o FullfileCalls(Tail(script), op, assigned)
             ELSE FullfileCalls(Tail(script), op, assigned)

MaxPaths == 3

\* entries of all_paths: 'a', 'b', 'b/c'
PathNames == {<<"a">>, <<"b">>, <<"b", "c">>}

AllPathsLists == UNION {[1..n -> PathNames] : n \in 0..MaxPaths}

\* one call of create_load_and_unload_scripts(mhl_dir, all_paths), line 300
PreparerCreateLoadAndUnloadScripts ==
    /\ ncalls < MaxCalls
    /\ \E paths \in AllPathsLists :
          LET out == preparer_create_load_and_unload_scripts(paths)
          IN  /\ sargs' = [package_name |-> NoValue, paths |-> paths]
              /\ load_m' = out.load_m
              /\ unload_m' = out.unload_m
    /\ ncalls' = ncalls + 1
    /\ UNCHANGED <<package_dirs, serror, dvars, cvars, pvars>>

NextPreparerScripts == PreparerCreateLoadAndUnloadScripts

SpecPreparerScripts == InitEmitter /\ [][NextPreparerScripts]_vars

------------------------------------------------------------------------------
\* A manifest written from a definition, published as it is, and the
\* existence check of a later run against the same definition

\* the attributes of a Package instance that PackageBuilder._create_mip_json
\* writes
BuilderWritten ==
    {"name", "description", "version", "build_number", "dependencies",
     "homepage", "repository", "matlab_tag", "abi_tag", "platform_tag",
     "exposed_symbols"}

\* PackageBuilder._create_mip_json(mhl_build_dir, package, build_duration)
builder_create_mip_json(package) ==
    Written([k \in BuilderWritten \cup {"timestamp", "build_duration"} |->
               CASE k \in BuilderWritten -> package[k]
                 [] k = "timestamp" -> "utcnow"
                 [] k = "build_duration" -> "duration"])

\* Package instances with every attribute set, the homepage to None, to ''
\* or to a URL
BuilderPackages ==
    { [k \in BuilderWritten |->
         IF k = "homepage" THEN h
         ELSE IF k \in {"matlab_tag", "abi_tag", "platform_tag"} THEN "any"
         ELSE IF k = "exposed_symbols" THEN s
         ELSE ValueOf(k)] : h \in Homepages, s \in SymbolLists }

\* a call of PackageBuilder._create_mip_json
BuilderCreateMipJson ==
    /\ wcall = NoCall
    /\ \E package \in BuilderPackages :
          LET out == builder_create_mip_json(package)
          IN  /\ wcall' = [fn |-> "builder_create_mip_json",
                           package |-> package]
              /\ mip_data' = out.file
              /\ werror' = out.raised
    /\ ManifestFrame

\* the manifest that was written becomes the remote sidecar, unchanged, and
\* a later run of the same orchestrator is given the same definition
PublishUnchanged ==
    /\ kpc = "idle"
    /\ wcall.fn \in {"_create_mip_json", "builder_create_mip_json"}
    /\ werror = NoValue
    /\ mip_data.exists
    /\ remote' = [kind |-> "ok", json |-> mip_data.lines]
    /\ flow' = IF wcall.fn = "_create_mip_json" THEN "prepare" ELSE "build"
    /\ package_data' = IF wcall.fn = "_create_mip_json"
                       THEN wcall.yaml_data ELSE wcall.package
    /\ dry_run' \in BOOLEAN
    /\ kpc' = "checking"
    /\ UNCHANGED <<force, keep_dirs, builds_left, fetched, decision, staged,
                   raised_in, kresult, bucket>>
    /\ OrchestratorFrame

\* `if not self.force and self._check_existing_package(mhl_filename, ...)`
\* of the later run, without --force
CheckAgain ==
    /\ kpc = "checking"
    /\ fetched' = TRUE
    /\ decision' = Decide(flow, force, dry_run, remote, package_data)
    /\ kpc' = "decided"
    /\ UNCHANGED <<flow, force, dry_run, keep_dirs, package_data, remote,
                   builds_left, staged, raised_in, kresult, bucket>>
    /\ OrchestratorFrame

NextRoundTrip ==
    \/ PreparerCreateMipJson
    \/ BuilderCreateMipJson
    \/ PublishUnchanged
    \/ CheckAgain

SpecRoundTrip == InitManifest /\ [][NextRoundTrip]_vars

------------------------------------------------------------------------------
\* The releases of a package: the loop of prepare_package_dir over
\* os.listdir(releases_folder_path)

MaxReleases == 2

ReleaseNames == {"1.0", "2.0", "3.0"}

\* how the processing of a release folder ends: no prepare.yaml (return
\* True), no build of the build type (return True), a version that is not
\* the folder's name (return False), a build that fails (return False), or
\* every build skipped, reported or prepared
ReleaseEnds == {"no_yaml", "no_builds", "mismatch", "build_fails", "builds_done"}

\* an entry of the releases folder: a release folder, or a plain file
ReleaseEntries ==
    {[name |-> n, dir |-> TRUE, ends |-> e] : n \in ReleaseNames, e \in ReleaseEnds}
      \cup {[name |-> n, dir |-> FALSE, ends |-> "no_yaml"] : n \in ReleaseNames}

\* the listings of at most MaxReleases entries, no name twice, in any order
ReleaseListings ==
    UNION { { f \in [1..n -> ReleaseEntries] :
                \A i, j \in 1..n : i # j => f[i].name # f[j].name }
            : n \in 0..MaxReleases }

\* the release argument
Releases == {[given |-> FALSE]} \cup {[given |-> TRUE, name |-> n] : n \in ReleaseNames}

\* lines 356-359: a directory that is not the selected release is passed
\* over; the test is made for directories only
PassedOver(entry, rel) == entry.dir /\ rel.given /\ entry.name # rel.name

\* lines 362-455, the rest of the loop body for an entry that is not passed
\* over: what it returns.  os.path.exists finds no prepare.yaml below a
\* plain file; line 455, `return True`, is a statement of the loop body.
BodyReturns(entry) ==
    CASE ~ entry.dir -> "True"
      [] entry.ends = "no_yaml" -> "True"
      [] entry.ends = "no_builds" -> "True"
      [] entry.ends = "mismatch" -> "False"
      [] entry.ends = "build_fails" -> "False"
      [] entry.ends = "builds_done" -> "True"

ReleasesFrame ==
    UNCHANGED <<dvars, cvars, svars, mvars, kvars, uvars, bvars, rvars, avars,
                ivars, evars, ovars, nvars>>

\* prepare_package_dir(package_dir, release=...), lines 347-354
PreparePackageDirOfReleases ==
    /\ lpc = "idle"
    /\ \E listed \in ReleaseListings, rel \in Releases :
          /\ release_entries' = listed
          /\ release' = rel
          /\ remaining' = listed
    /\ lpc' = "looping"
    /\ UNCHANGED <<handled, passed_over, lresult>>
    /\ ReleasesFrame

\* one iteration of `for release_version in os.listdir(...)`
NextReleaseVersion ==
    /\ lpc = "looping"
    /\ remaining # <<>>
    /\ LET entry == Head(remaining)
       IN  IF PassedOver(entry, release)
           THEN /\ passed_over' = Append(passed_over, entry.name)
                /\ remaining' = Tail(remaining)
                /\ UNCHANGED <<handled, lpc, lresult>>
           ELSE /\ handled' = Append(handled, entry.name)
                /\ lresult' = BodyReturns(entry)
                /\ lpc' = "returned"
                /\ UNCHANGED <<remaining, passed_over>>
    /\ UNCHANGED <<release_entries, release>>
    /\ ReleasesFrame

\* the loop is exhausted: the function ends without a return statement and
\* returns None
ReleasesExhausted ==
    /\ lpc = "looping"
    /\ remaining = <<>>
    /\ lresult' = NoValue
    /\ lpc' = "returned"
    /\ UNCHANGED <<release_entries, release, remaining, handled, passed_over>>
    /\ ReleasesFrame

NextReleases ==
    \/ PreparePackageDirOfReleases
    \/ NextReleaseVersion
    \/ ReleasesExhausted

SpecReleases == InitManifest /\ [][NextReleases]_vars

------------------------------------------------------------------------------
\* The archive names: _get_mhl_filename of PackagePreparer and of
\* PackageBuilder.  A string is the sequence of its parts, '-' being a part
\* of its own: 'a-b' is <<"a", "-", "b">>.  No part used here begins with
\* another, so two strings are equal exactly when their sequences are.

Dash == <<"-">>

\* f"{name}-{version}-{matlab_tag}-{abi_tag}-{platform_tag}.mhl"
_get_mhl_filename(b) ==
    b.name \o Dash \o b.version \o Dash \o b.matlab_tag \o Dash
        \o b.abi_tag \o Dash \o b.platform_tag \o <<".mhl">>

MaxNamed == 2

\* names 'a', 'b', 'a-b'; versions '1', '2', 'b-1'
NamedBuilds ==
    [name : {<<"a">>, <<"b">>, <<"a", "-", "b">>},
     version : {<<"1">>, <<"2">>, <<"b", "-", "1">>},
     matlab_tag : {<<"R2020">>},
     abi_tag : {<<"none">>},
     platform_tag : {<<"linux">>, <<"win">>}]

NamingFrame ==
    UNCHANGED <<dvars, cvars, svars, mvars, kvars, uvars, bvars, rvars, avars,
                ivars, evars, ovars, lvars>>

\* a build is given its file name; each build is named once
GetMhlFilename ==
    /\ Len(archive_names) < MaxNamed
    /\ \E b \in NamedBuilds :
          /\ \A i \in DOMAIN archive_names : archive_names[i].build # b
          /\ archive_names' = Append(archive_names,
                                     [build |-> b,
                                      mhl_filename |-> _get_mhl_filename(b)])
    /\ NamingFrame

NextNaming == GetMhlFilename

SpecNaming == InitManifest /\ [][NextNaming]_vars

------------------------------------------------------------------------------
\* Claims about the decoder

Markers == {<<"+">>, <<"@">>}

\* C1 (as stated): the decoder applies exactly one rule: on a name ending in
\* '.m' only the suffix is removed, a leading '+' or '@' staying in place.
C1_OneRuleOnly ==
    dpc = "extracted" => symbol = ExtractOneRuleOnly(item_name)

\* C1 (amended): the decoder applies its two rules in sequence: the name is
\* prefix \o symbol \o suffix, where suffix is '.m' exactly when the name ends
\* in '.m', and prefix is the one leading '+' or '@' of what is left after
\* the suffix is taken off, empty when that does not begin with a marker.
C1_BothRulesInSequence ==
    dpc = "extracted" =>
        \E suffix \in {<<>>, DotM}, prefix \in Markers \cup {<<>>} :
            /\ item_name = prefix \o symbol \o suffix
            /\ (suffix = DotM) <=> EndsWith(item_name, DotM)
            /\ (prefix = <<>>) <=>
                   ~ \E m \in Markers : StartsWith(prefix \o symbol, m)

\* C1 witness: on '+a.m' both rules fired and the result is 'a'.
C1_Witness ==
    /\ dpc = "extracted"
    /\ item_name = <<"+", "a", ".", "m">>
    /\ symbol = <<"a">>

\* the extension the loop stopped at: the first of the list the name ends with
MatchedExtension ==
    CHOOSE e \in {extensions[i] : i \in 1..Len(extensions)} :
        \E i \in 1..Len(extensions) :
            /\ extensions[i] = e
            /\ EndsWith(item_name, e)
            /\ \A j \in 1..(i - 1) : ~ EndsWith(item_name, extensions[j])

\* C2 (as stated): for a file name ending in a recognized extension the
\* symbol is the name with exactly that suffix removed, and the symbol never
\* itself ends with that suffix.  (Read for non-empty extensions only, which
\* is the part of the claim the empty extension cannot blur.)
C2_SuffixRemovedAndGone ==
    /\ (dpc = "stripped" /\ MatchedExtension # <<>>) =>
          /\ symbol \o MatchedExtension = item_name
          /\ ~ EndsWith(symbol, MatchedExtension)
    /\ (dpc = "extracted" /\ EndsWith(item_name, DotM)) =>
          /\ symbol \o DotM = item_name
          /\ ~ EndsWith(symbol, DotM)

\* C2 (amended): for a file name ending in a non-empty recognized extension,
\* the extension loop yields the name with the first matching extension of
\* the list removed once, and _extract_symbol_name yields the name with '.m'
\* removed once and then one leading '+' or '@' removed; the symbol still
\* ends with the suffix exactly when the name carries the suffix twice.
C2_SuffixRemovedOnce ==
    /\ (dpc = "stripped" /\ MatchedExtension # <<>>) =>
          /\ symbol \o MatchedExtension = item_name
          /\ EndsWith(symbol, MatchedExtension) <=>
                EndsWith(item_name, MatchedExtension \o MatchedExtension)
    /\ (dpc = "extracted" /\ EndsWith(item_name, DotM)) =>
          /\ \E prefix \in Markers \cup {<<>>} :
                /\ prefix \o symbol \o DotM = item_name
                /\ (prefix = <<>>) <=>
                       ~ \E m \in Markers : StartsWith(item_name, m)
          /\ EndsWith(symbol, DotM) <=> EndsWith(item_name, DotM \o DotM)

\* C2 witness: 'a.m.m' went through both decoders, and 'a.m' came out.
C2_Witness ==
    /\ dpc \in {"stripped", "extracted"}
    /\ item_name = <<"a", ".", "m", ".", "m">>
    /\ symbol = <<"a", ".", "m">>

\* C2 second witness state: '+a.m' decoded by _extract_symbol_name to 'a'.
C2_WitnessMarker ==
    /\ dpc = "extracted"
    /\ item_name = <<"+", "a", ".", "m">>
    /\ symbol = <<"a">>
    /\ extensions = <<>>

------------------------------------------------------------------------------
\* Claims about the collectors

Returned == cpc \in {"returned", "written", "failed"}

ExtensionListCall == call.fn \in {"with_extensions", "prepare"}

RecognizedExtensions == {call.exts[i] : i \in 1..Len(call.exts)}

Count(seq, x) == Cardinality({i \in 1..Len(seq) : seq[i] = x})

IsAscending(seq) == \A i \in 1..(Len(seq) - 1) : StrLeq(seq[i], seq[i + 1])

\* the entry at path p is one the call under way collects: a file ending in
\* a recognized extension, or a directory beginning with '+' or '@'
Qualifies(p) ==
    \/ IsFile(p) /\ \E e \in RecognizedExtensions : EndsWith(Name(p), e)
    \/ IsDir(p) /\ HasMarker(Name(p))

\* s is the raw name n decoded as the call under way decodes the entry at p:
\* the '.m' collectors take off '.m' and then one leading marker; the
\* extension-list collectors take the first matching extension off a file
\* and the marker off a directory
DecodesTo(p, s) ==
    LET n == Name(p)
    IN  IF ExtensionListCall
        THEN \/ /\ IsFile(p)
                /\ \E i \in 1..Len(call.exts) :
                      /\ s \o call.exts[i] = n
                      /\ \A j \in 1..(i - 1) : ~ EndsWith(n, call.exts[j])
             \/ /\ IsDir(p)
                /\ \E m \in Markers : m \o s = n
        ELSE \E suffix \in {<<>>, DotM}, prefix \in Markers \cup {<<>>} :
                /\ n = prefix \o s \o suffix
                /\ (suffix = DotM) <=> EndsWith(n, DotM)
                /\ (prefix = <<>>) <=> ~ HasMarker(prefix \o s)

\* C3 (as stated): no entry of a returned list begins with '+' or '@' or
\* ends with a recognized extension.
C3_NoMarkerNoExtension ==
    Returned =>
        \A i \in 1..Len(result) :
            /\ ~ HasMarker(result[i])
            /\ \A e \in RecognizedExtensions : ~ EndsWith(result[i], e)

\* C3 (amended): every entry of a returned list is the decoded name of one
\* qualifying filesystem entry, with one recognized suffix and one leading
\* marker removed as that collector's decoder removes them, and no more; an
\* entry still begins with a marker or ends with a recognized extension
\* where the raw name carries a second one (or, in the extension-list
\* collectors, where a file name begins with a marker).
C3_EntriesAreDecodedOnce ==
    Returned =>
        /\ Len(origins) = Len(result)
        /\ \A i \in 1..Len(origins) : Qualifies(origins[i])
        /\ \A i \in 1..Len(result) :
              \E j \in 1..Len(origins) : DecodesTo(origins[j], result[i])
        /\ \A j \in 1..Len(origins) :
              \E i \in 1..Len(result) : DecodesTo(origins[j], result[i])

\* C3 witness: a top-level scan returned 'a.m' for 'a.m.m' and '+a' for the
\* directory '++a'.
C3_Witness ==
    /\ cpc = "returned"
    /\ call.fn = "top_level"
    /\ {<<nAMM>>, <<nPlusPlusA>>} \subseteq tree
    /\ result = << <<"+", "a">>, <<"a", ".", "m">> >>

\* the entries that contribute to the call under way: the qualifying
\* entries of the directories it listed, less the directories it excludes
Contributing ==
    {p \in tree : /\ Parent(p) \in visited
                  /\ Qualifies(p)
                  /\ ~ (IsDir(p) /\ Name(p) \in call.exclude)}

C5_NothingBeneathExcludedName ==
    call.fn = "recursive" =>
        \A i \in 1..Len(origins) :
            /\ \A k \in 1..(Len(origins[i]) - 1) :
                  origins[i][k] \notin call.exclude
            /\ IsDir(origins[i]) => Name(origins[i]) \notin call.exclude

\* C5 (amended): nothing located beneath a directory that the walk meets
\* below its start directory and whose name is in the exclusion set
\* contributes an entry, is visited or is queued for a visit, and such a
\* directory contributes no entry itself; the name of the start directory
\* is never tested against the exclusion set.
C5_NothingBeneathExcludedDir ==
    call.fn = "recursive" =>
        LET start == Len(call.dirs[1])
        IN  /\ \A i \in 1..Len(origins) :
                  /\ \A k \in (start + 1)..(Len(origins[i]) - 1) :
                        origins[i][k] \notin call.exclude
                  /\ IsDir(origins[i]) =>
                        Name(origins[i]) \notin call.exclude
            /\ \A v \in visited :
                  \A k \in (start + 1)..Len(v) : v[k] \notin call.exclude
            /\ \A i \in 1..Len(todo) :
                  \A k \in (start + 1)..Len(todo[i]) :
                      todo[i][k] \notin call.exclude

\* C5 witness: with 't' and '+t' excluded, a walk over s/t/b.m and '+t'
\* ended having listed the root and 's' only, with nothing collected.
C5_Witness ==
    /\ cpc = "returned"
    /\ call.fn = "recursive"
    /\ call.dirs = <<Root>>
    /\ call.exclude = {nT, nPlusT}
    /\ tree = {<<nS>>, <<nS, nT>>, <<nS, nT, nBM>>, <<nPlusT>>}
    /\ visited = {Root, <<nS>>}
    /\ result = <<>>

C7_ManifestSorted ==
    cpc = "written" => IsAscending(mip_json)

\* C7 (amended): the stored list is sorted ascending when recursive or
\* multi-path collection produced it; top-level and extension-list
\* collection store the decoded names in the order of the sorted raw names,
\* which need not be ascending.
C7_ManifestSortedWhenCollectorSorts ==
    cpc = "written" =>
        /\ call.fn \in {"recursive", "multiple_paths"} =>
              /\ IsAscending(mip_json)
              /\ \A i \in 1..Len(symbols) :
                    Count(mip_json, symbols[i]) = Count(symbols, symbols[i])
        /\ call.fn \in {"top_level", "with_extensions"} =>
              /\ mip_json = symbols
              /\ \A i \in 1..(Len(origins) - 1) :
                    StrLess(Name(origins[i]), Name(origins[i + 1]))

\* C7 witness: a recursive scan appended in another order than the one the
\* manifest holds.
C7_Witness ==
    /\ cpc = "written"
    /\ call.fn = "recursive"
    /\ mip_json # symbols
    /\ Len(mip_json) >= 2

\* C8: no collector raises because an input directory does not exist: a
\* call on a missing directory returns the empty list, and in a multi-path
\* call a missing directory contributes nothing while every other listed
\* directory is collected.
C8_MissingDirectoryIsEmpty ==
    /\ cpc = "raised" =>
          \E i \in 1..Len(call.dirs) :
              Exists(call.dirs[i]) /\ ~ IsDir(call.dirs[i])
    /\ (Returned /\ Len(call.dirs) = 1 /\ ~ Exists(call.dirs[1])) =>
          result = <<>>
    /\ (Returned /\ call.fn = "multiple_paths") =>
          /\ visited = {call.dirs[i] : i \in 1..Len(call.dirs)} \cap
                          {d \in Targets : IsDir(d)}
          /\ \A p \in tree :
                (Parent(p) \in visited /\ Qualifies(p)) =>
                    \E i \in 1..Len(origins) : origins[i] = p

\* C8 witness: a multi-path call on the missing directory 's' and the root
\* returned the root's symbols.
C8_Witness ==
    /\ cpc = "returned"
    /\ call.fn = "multiple_paths"
    /\ call.dirs = << <<nS>>, Root >>
    /\ ~ Exists(<<nS>>)
    /\ result # <<>>
    /\ error = NoValue

\* C8 second witness state: a recursive call on a missing directory
\* returned the empty list.
C8_WitnessRecursive ==
    /\ cpc = "returned"
    /\ call.fn = "recursive"
    /\ ~ Exists(call.dirs[1])
    /\ result = <<>>

------------------------------------------------------------------------------
\* Claims about the script emitter

\* the directories a script passes to addpath (or rmpath), in order
Dirs(script, op) ==
    LET calls == PathCalls(script)
        RECURSIVE Pick(_)
        Pick(i) ==
            IF i > Len(calls) THEN <<>>
            ELSE IF calls[i].op = op THEN <<calls[i].dir>> \o Pick(i + 1)
            ELSE Pick(i + 1)
    IN  Pick(1)

\* the last call wrote both scripts from an explicit subdirectory list (or
\* from no list)
WroteFromList == ncalls > 0 /\ serror = NoValue /\ ~ sargs.add_all_subdirs

GivenSubdirs == IF sargs.subdirs.given THEN sargs.subdirs.list ELSE <<>>

\* C9: for every package name and subdirectory list [s1..sn] the load
\* script adds the main directory first and then s1..sn in listed order,
\* and the unload script removes sn..s1 and then, last, the main directory.
C9_LoadThenReverseUnload ==
    WroteFromList =>
        LET main == sargs.package_name
            subs == [i \in 1..Len(GivenSubdirs) |-> main \o GivenSubdirs[i]]
        IN  /\ Dirs(load_m.lines, "addpath") = <<main>> \o subs
            /\ Dirs(load_m.lines, "rmpath") = <<>>
            /\ Dirs(unload_m.lines, "rmpath") = reversed(subs) \o <<main>>
            /\ Dirs(unload_m.lines, "addpath") = <<>>

\* C9 for the calls where no subdirectory has the package's own name: the
\* order of C9 holds for those.
C9_OrderWhenNoSubdirNamedAsPackage ==
    (WroteFromList
       /\ \A i \in 1..Len(GivenSubdirs) :
             GivenSubdirs[i] # sargs.package_name)
    => C9_LoadThenReverseUnload

\* C9 where it holds: package 'c' with subdirectories ['a', 'b'].
C9_WitnessDistinctNames ==
    /\ WroteFromList
    /\ sargs.package_name = <<"c">>
    /\ sargs.subdirs = List(<< <<"a">>, <<"b">> >>)
    /\ Dirs(load_m.lines, "addpath")
          = << <<"c">>, <<"c", "a">>, <<"c", "b">> >>
    /\ Dirs(unload_m.lines, "rmpath")
          = << <<"c", "b">>, <<"c", "a">>, <<"c">> >>

\* C10: a call with add_all_subdirs and an explicit subdirectory list
\* raises, and neither load_package.m nor unload_package.m is created or
\* modified by it.
C10_BothGivenRaisesAndWritesNothing ==
    [][ (ncalls' = ncalls + 1
           /\ sargs'.add_all_subdirs /\ sargs'.subdirs.given)
        => /\ serror' = "ValueError"
           /\ load_m' = load_m
           /\ unload_m' = unload_m ]_vars

\* C10 witness: the scripts written for package 'c' by an earlier call are
\* still there after a call for package 'a' raised; and the call that
\* raises first leaves no file behind.
C10_Witness ==
    /\ ncalls = 2
    /\ serror = "ValueError"
    /\ sargs.package_name = <<"a">>
    /\ sargs.add_all_subdirs
    /\ sargs.subdirs = List(<< <<"b">> >>)
    /\ load_m = File(LoadScript(<<"c">>, None))
    /\ unload_m = File(UnloadScript(<<"c">>, None))

C10_WitnessNoFile ==
    /\ ncalls = 1
    /\ serror = "ValueError"
    /\ load_m = NoFile
    /\ unload_m = NoFile

------------------------------------------------------------------------------
\* Claims about the manifest writers

\* the optional fields of a package definition, and whether the definition
\* behind the call supplies one
OptionalFields == {"name", "version", "license", "usage_examples"}

Supplies(field) ==
    CASE wcall.fn = "create_mip_json" ->
           CASE field = "name" -> wcall.package_name # NoValue
             [] field = "version" -> wcall.version # NoValue
             [] OTHER -> FALSE
      [] wcall.fn = "_create_mip_json" -> field \in DOMAIN wcall.yaml_data

\* the manifest key a writer uses for a field
KeyOf(field) ==
    IF wcall.fn = "create_mip_json" /\ field = "name" THEN "package"
    ELSE field

\* C11: a manifest written by either writer contains the key of an optional
\* field (package name, version, license, usage examples) only when the
\* package definition supplies the field; otherwise the key is absent, never
\* present with an empty or null value.
C11_OptionalKeyOnlyWhenSupplied ==
    mip_data.exists =>
        \A field \in OptionalFields :
            KeyOf(field) \in DOMAIN mip_data.lines => Supplies(field)

\* C11 for the helper's writer alone, where it holds: "package" and
\* "version" are keys exactly when the arguments are given.
C11_HelperOmitsWhatIsNotGiven ==
    (mip_data.exists /\ wcall.fn = "create_mip_json") =>
        \A field \in OptionalFields :
            KeyOf(field) \in DOMAIN mip_data.lines <=> Supplies(field)

C11_WitnessHelperOmits ==
    /\ mip_data.exists
    /\ wcall.fn = "create_mip_json"
    /\ wcall.package_name = NoValue
    /\ wcall.version = "1.0"
    /\ DOMAIN mip_data.lines = {"dependencies", "exposed_symbols", "version"}

------------------------------------------------------------------------------
\* Claims about the orchestrators

\* the compared fields of the run under way
ComparedFields ==
    { fields_to_compare(flow)[i] : i \in 1..Len(fields_to_compare(flow)) }

\* a manifest was fetched for the current build and the build was decided
DecidedOnManifest ==
    decision # "none" /\ fetched /\ remote.kind = "ok"

\* the compared fields that only one of manifest and definition has
OneSided ==
    { f \in ComparedFields :
        (f \in DOMAIN remote.json) # (f \in DOMAIN package_data) }

\* C12: the existence check reports a mismatch whenever a compared field is
\* present on only one side, in the remote manifest or in the local
\* definition, whatever the value of the present field.
C12_OneSidedFieldIsMismatch ==
    (DecidedOnManifest /\ OneSided # {}) => decision # "skip"

\* C12 for the fields whose present value is not None: those are reported
\* as a mismatch.
C12_OneSidedNonNullIsMismatch ==
    (DecidedOnManifest
       /\ \E f \in OneSided :
            Get(remote.json, f, NoValue) # Get(package_data, f, NoValue))
    => decision # "skip"

C12_WitnessOneSidedMismatch ==
    /\ DecidedOnManifest
    /\ flow = "prepare"
    /\ "homepage" \notin DOMAIN remote.json
    /\ "homepage" \in DOMAIN package_data
    /\ package_data["homepage"] = ""
    /\ remote.json["description"] = package_data["description"]
    /\ decision = "proceed"

\* every compared field is equal, as the check compares them
AllComparedEqual ==
    \A f \in ComparedFields :
        Get(remote.json, f, NoValue) = Get(package_data, f, NoValue)

C13_WitnessForced ==
    /\ decision = "proceed"
    /\ force
    /\ remote.kind = "ok"
    /\ AllComparedEqual
    /\ kpc = "acquiring"

\* the steps of a build that come before the manifest is written
StepsBeforeManifest ==
    {"acquiring", "computing_paths", "laying_out", "collecting_symbols"}

\* a run of prepare_package_dir is over and its last build got past the
\* existence check and the dry-run test
PreparedBuildOver ==
    flow = "prepare" /\ kpc = "returned" /\ decision = "proceed"

\* C14: if acquisition, path computation, script emission and symbol
\* collection of a build all complete without error, the manifest is written
\* and the build ends in done: prepare_package_dir reports success and the
\* staged directory exists and contains mip.json.
C14_AllStepsOkEndsDone ==
    (PreparedBuildOver /\ raised_in \notin StepsBeforeManifest) =>
        /\ kresult = "True"
        /\ staged.exists
        /\ staged.mip_json

\* what the runs of prepare_package_dir do instead: every build that gets
\* past the existence check ends failed, with its staged directory removed.
C14_EveryPreparedBuildFails ==
    PreparedBuildOver =>
        /\ kresult = "False"
        /\ staged = NoDir
        /\ raised_in \in StepsBeforeManifest \cup {"writing_manifest"}

C14_WitnessFailsAtManifest ==
    /\ PreparedBuildOver
    /\ raised_in = "writing_manifest"
    /\ kresult = "False"
    /\ staged = NoDir

------------------------------------------------------------------------------
\* Claims about the batch operations

\* the packages of a list up to and including the first that fails
RECURSIVE UpToFirstFailure(_)
UpToFirstFailure(list) ==
    IF list = <<>> THEN <<>>
    ELSE IF Head(list) \in failing THEN <<Head(list)>>
    ELSE <<Head(list)>> \o UpToFirstFailure(Tail(list))

Elements(list) == { list[i] : i \in 1..Len(list) }

\* a batch that found packages to process is over
BatchOver == bpc = "returned" /\ listing # <<>>

\* the packages were processed in ascending order up to the first failure,
\* the results of those that succeeded are in place, and the batch returns
\* whether all succeeded
AscendingUntilFirstFailure ==
    /\ processed = UpToFirstFailure(sorted(listing))
    /\ in_place = Elements(processed) \ failing
    /\ bresult = IF Elements(processed) \cap failing # {}
                 THEN "False" ELSE "True"

\* C15: in every batch operation (prepare all, bundle-and-upload all,
\* upload all, build all) the packages are processed one at a time in
\* ascending path order; after the first package that fails no later
\* package is processed, the batch reports failure, and the results of the
\* packages processed before it are left in place.
C15_AscendingUntilFirstFailure == BatchOver => AscendingUntilFirstFailure

\* C15 for bundle_and_upload_all, upload_all and build_all_packages, where
\* it holds.
C15_HoldsOutsidePrepareAll ==
    (BatchOver /\ batch # "prepare_all_packages")
    => AscendingUntilFirstFailure

\* 'b' fails: 'a' was processed and its results stay, 'c' is never taken
C15_WitnessAbortsAtFirstFailure ==
    /\ BatchOver
    /\ batch = "upload_all"
    /\ listing = << <<"c">>, <<"a">>, <<"b">> >>
    /\ failing = { <<"b">> }
    /\ processed = << <<"a">>, <<"b">> >>
    /\ in_place = { <<"a">> }
    /\ bresult = "False"

\* what prepare_all_packages does: nothing is processed and TypeError
\* leaves the batch
C15_WitnessPrepareAllRaises ==
    /\ BatchOver
    /\ batch = "prepare_all_packages"
    /\ failing = {}
    /\ processed = <<>>
    /\ bresult = "TypeError"

------------------------------------------------------------------------------
\* Claims about the publishers

RunOver == rpc = "returned"

\* the run attempted the upload of the object, and whether it succeeded
Attempted(object) == \E i \in 1..Len(uploads) : uploads[i].object = object

Succeeded(object) ==
    \E i \in 1..Len(uploads) : uploads[i].object = object /\ uploads[i].ok

\* the archive goes first, the sidecar is tried only after the archive went
\* up, nothing is tried after a failure, nothing twice
UploadsInOrder ==
    /\ Len(uploads) <= 2
    /\ Len(uploads) >= 1 => uploads[1].object = "mhl"
    /\ Len(uploads) = 2 => (uploads[1].ok /\ uploads[2].object = "json")

C16_WitnessPublished ==
    /\ RunOver
    /\ uploads = << [object |-> "mhl", ok |-> TRUE],
                    [object |-> "json", ok |-> TRUE] >>
    /\ rresult = "True"

\* C17: whenever no run is under way, whatever runs there were and however
\* they ended, the archive object and its sidecar are both absent or both
\* present, and then from the same build.
C17_SidecarAccompaniesArchive ==
    rpc \in {"idle", "returned"} => bucket.mhl = bucket.json

\* what holds: after a run whose two uploads succeeded, archive and sidecar
\* come from that run's build
C17_PairedAfterSuccess ==
    (RunOver /\ Succeeded("json")) =>
        (bucket.mhl = run.build /\ bucket.json = run.build)

C17_WitnessArchiveAlone ==
    /\ RunOver
    /\ rresult = "False"
    /\ bucket.mhl = 1
    /\ bucket.json = 0

------------------------------------------------------------------------------
\* Claims about source acquisition

\* the call acquires from a zip file, from a git repository
FromZip ==
    \/ acq.fn = "download_and_extract_zip"
    \/ acq.fn = "_prepare_package" /\ acq.keys = {"download_zip"}

FromGit ==
    \/ acq.fn = "clone_repository_and_remove_git"
    \/ acq.fn = "_prepare_package" /\ acq.keys = {"clone_git"}

\* download_and_extract_zip has finished, by returning or by raising
ZipFinished == FromZip /\ apc \notin {"idle", "downloading", "extracting",
                                       "removing_temp"}

\* C18: after download_and_extract_zip finishes, whether extraction
\* succeeded or raised, the file temp_download.zip no longer exists.
C18_TempFileGoneWhenZipFinished == ZipFinished => ~ temp_download

\* what holds: the file is gone when download_and_extract_zip returned
C18_TempFileGoneWhenZipReturned ==
    (ZipFinished /\ apc # "raised") => ~ temp_download

C18_WitnessTempFileLeft ==
    /\ ZipFinished
    /\ aresult = "BadZipFile"
    /\ temp_download

\* the known native-binary extensions
NativeExtensions ==
    { <<".mexw64">>, <<".mexa64">>, <<".mexmaci64">>, <<".mexmaca64">>,
      <<".mexw32">>, <<".mexglx">>, <<".mexmac">> }

IsNativeBinary(e) ==
    ~ e.dir /\ \E ext \in NativeExtensions : EndsWith(Name(e.path), ext)

Prepared == acq.fn = "_prepare_package" /\ apc = "returned"

\* C19: when _prepare_package returns successfully the staged tree holds, at
\* any depth, no file whose name ends with a known native-binary extension,
\* whether it came from a git clone or a zip; none was there when the
\* scripts were emitted nor when the symbols were collected.
C19_NoNativeBinaryWhenPrepared ==
    Prepared =>
        /\ \A e \in dest : ~ IsNativeBinary(e)
        /\ Len(seen_mex) = 2
        /\ seen_mex[1] = [at |-> "scripts", mex |-> {}]
        /\ seen_mex[2] = [at |-> "symbols", mex |-> {}]

C19_WitnessFromGit ==
    /\ Prepared
    /\ acq.keys = {"clone_git"}
    /\ PlainFile(<<nSrc, nSub, nKmac>>) \in content
    /\ Dir(<<nSrc, nSub>>) \in dest

C19_WitnessFromZip ==
    /\ Prepared
    /\ acq.keys = {"download_zip"}
    /\ {PlainFile(<<nDglx, nKw64>>), PlainFile(<<nKbak>>)} \subseteq content
    /\ {Dir(<<nDglx>>), PlainFile(<<nKbak>>)} \subseteq dest

\* the git acquisition has succeeded, and nothing else has touched the tree
GitAcquired ==
    \/ acq.fn = "clone_repository_and_remove_git" /\ apc = "returned"
    \/ /\ acq.fn = "_prepare_package"
       /\ acq.keys = {"clone_git"}
       /\ apc = "computing_paths"

\* the entry is a directory named .git of tree t, or lies under one
InGitDir(t, e) ==
    \E k \in 1..Len(e.path) :
        /\ e.path[k] = nGit
        /\ Dir(SubSeq(e.path, 1, k)) \in t

\* C20: after a successful git acquisition no directory named .git exists at
\* any depth under the destination, the walk never descended into a removed
\* .git directory, and every other file and directory of the clone is
\* unchanged; a non-zero exit of the clone command fails the step before any
\* removal.
C20_GitDirsRemovedRestKept ==
    /\ GitAcquired =>
         /\ \A e \in dest : ~ (e.dir /\ Name(e.path) = nGit)
         /\ dest = {e \in content : ~ InGitDir(content, e)}
    /\ (FromGit /\ (apc = "removing_git" \/ GitAcquired)) =>
         \A i \in 1..Len(walked) :
             \A k \in 1..Len(walked[i]) : walked[i][k] # nGit
    /\ (FromGit /\ aresult = "CalledProcessError") =>
         /\ apc = "raised"
         /\ dest = {}
         /\ walked = <<>>

C20_WitnessNestedGit ==
    /\ GitAcquired
    /\ {Dir(<<nGit>>), Dir(<<nSrc, nGit>>), PlainFile(<<nSrc, nGit, nHead>>)}
           \subseteq content
    /\ dest = {Dir(<<nSrc>>)}

C20_WitnessCloneFails ==
    /\ FromGit
    /\ aresult = "CalledProcessError"
    /\ content # {}

------------------------------------------------------------------------------
\* Claims about the index assembler

\* the subsequence of the elements of s that are in good
RECURSIVE SelectKeys(_, _)
SelectKeys(s, good) ==
    IF s = <<>> THEN <<>>
    ELSE (IF Head(s) \in good THEN <<Head(s)>> ELSE <<>>)
             \o SelectKeys(Tail(s), good)

\* the listed keys whose object reads as a JSON object, and the others
ReadableKeys ==
    {k \in {mip_json_keys[i] : i \in 1..Len(mip_json_keys)} :
        ObjectAt(k).body.kind = "object"}

IndexedKeys ==
    {package_metadata[i].from : i \in 1..Len(package_metadata)}

WarnedKeys == {warned[i] : i \in 1..Len(warned)}

\* the keys of the index.json written, in its order
IndexOrder ==
    [i \in 1..Len(index_json.packages) |-> index_json.packages[i].from]

\* the loop over the listed sidecars ran to its end
AllDownloaded ==
    /\ mip_json_keys # <<>>
    /\ \/ ipc = "writing"
       \/ ipc = "returned" /\ ~ assembler.dry_run /\ to_download = <<>>

\* C21: a listed sidecar that cannot be downloaded or whose content does
\* not parse is left out of the index with a warning and does not end the
\* run; every other listed sidecar is in the index, and total_packages is
\* the number of entries included.
C21_UnreadableSidecarIsLeftOut ==
    /\ ipc # "raised"
    /\ AllDownloaded =>
         /\ IndexedKeys = ReadableKeys
         /\ WarnedKeys =
              {mip_json_keys[i] : i \in 1..Len(mip_json_keys)} \ ReadableKeys
    /\ index_json # NoIndex =>
         index_json.total_packages = Len(index_json.packages)

\* what holds: a run that did not raise left out exactly the sidecars whose
\* download raised ClientError or whose text was no JSON
C21_LeftOutWhenCaught ==
    AllDownloaded =>
        /\ IndexedKeys = ReadableKeys
        /\ \A k \in WarnedKeys :
               ObjectAt(k).body.kind \in {"ClientError", "JSONDecodeError"}

C21_WitnessRunRaises ==
    /\ ipc = "raised"
    /\ iresult = "UnicodeDecodeError"
    /\ index_json = NoIndex

\* C22: the entries of index.json are in discovery order, the order in
\* which the bucket listing returned the sidecar keys; the assembler does
\* not sort them.
C22_IndexInDiscoveryOrder ==
    index_json # NoIndex =>
        IndexOrder = SelectKeys(mip_json_keys, IndexedKeys)

\* C22 as the code has it: the entries of index.json are in ascending order
\* of their sidecar keys, whatever order the listing returned them in, and
\* the rows of packages.html are the same packages in ascending order of
\* their lower-cased names.
C22_IndexInKeyOrderHtmlInNameOrder ==
    /\ index_json # NoIndex =>
         /\ \A i, j \in 1..Len(IndexOrder) :
                i < j => KeyLess(IndexOrder[i], IndexOrder[j])
         /\ {IndexOrder[i] : i \in 1..Len(IndexOrder)} = ReadableKeys
    /\ packages_html # NoIndex =>
         /\ Len(packages_html.rows) = Len(index_json.packages)
         /\ \A i, j \in 1..Len(packages_html.rows) :
                i < j => ~ KeyLess(Lower(packages_html.rows[j]),
                                   Lower(packages_html.rows[i]))
         /\ \A n \in {<<"a">>, <<"B">>} :
                Cardinality({i \in 1..Len(packages_html.rows) :
                                 packages_html.rows[i] = n})
                  = Cardinality({i \in 1..Len(index_json.packages) :
                                     index_json.packages[i].name = n})

C22_Witness ==
    /\ iresult = "True"
    /\ Len(objects) = 2
    /\ objects[1].key = mip_json_key("PackageUploader", <<"b", ".mhl">>)
    /\ objects[2].key = mip_json_key("PackageBundler", <<"a", ".mhl">>)
    /\ index_json # NoIndex
    /\ Len(index_json.packages) = 2
    /\ index_json.packages[1].name = <<"B">>
    /\ index_json.packages[2].name = <<"a">>
    /\ packages_html # NoIndex
    /\ packages_html.rows = << <<"a">>, <<"B">> >>

\* the sidecars an uploader of the repository stored, readable as they were
\* written
UploadedSidecars ==
    {o \in {objects[i] : i \in 1..Len(objects)} :
        o.by \in Uploaders /\ o.body.kind = "object"}

\* C28: every package uploaded by any uploader of the repository is listed
\* by the next index assembly run and appears in the assembled index.
C28_UploadedIsIndexed ==
    (~ assembler.dry_run /\ iresult = "True") =>
        \A o \in UploadedSidecars :
            \E i \in 1..Len(index_json.packages) :
                index_json.packages[i].from = o.key

\* what holds: it is so for the sidecars stored by PackageBundler and by
\* PackageUploader
C28_BundledOrUploadedIsIndexed ==
    (~ assembler.dry_run /\ iresult = "True") =>
        \A o \in UploadedSidecars :
            o.by # "PackageBuilder" =>
                \E i \in 1..Len(index_json.packages) :
                    index_json.packages[i].from = o.key

C28_WitnessBuiltIsNotIndexed ==
    /\ ~ assembler.dry_run
    /\ iresult = "True"
    /\ \E i \in 1..Len(objects) :
          /\ objects[i].by = "PackageBuilder"
          /\ objects[i].body.kind = "object"
    /\ index_json.packages = <<>>

------------------------------------------------------------------------------
\* Claims about the entry points

Exited == DOMAIN exit_codes

\* the entry points that go over a directory of packages
DirectoryScripts ==
    {"prepare_packages", "bundle_and_upload_packages", "upload_packages",
     "build_and_upload_packages"}

\* C23: every entry point exits with 0 exactly when its whole run succeeded
\* and with 1 on any failure, and the same situation yields the same exit
\* code in all of them.
C23_SameSituationSameExitCode ==
    /\ \A e \in Exited : exit_codes[e] = 0 <=> results[e] = "True"
    /\ \A e1, e2 \in Exited \cap DirectoryScripts :
           exit_codes[e1] = exit_codes[e2]

\* C23 as the code has it: every entry point exits with 0 exactly when its
\* run method returned True and with 1 when it returned False or raised; a
\* missing directory is a success for upload_packages only, and nothing
\* found is a success for bundle_and_upload_packages and upload_packages
\* and a failure for prepare_packages and build_and_upload_packages.
C23_ExitCodeOfEachEntryPoint ==
    /\ \A e \in Exited :
           /\ exit_codes[e] \in {0, 1}
           /\ exit_codes[e] = 0 <=> results[e] = "True"
    /\ \A e \in Exited \cap DirectoryScripts :
           /\ ~ situation.directory =>
                 (exit_codes[e] = 0 <=> e = "upload_packages")
           /\ (situation.directory /\ situation.found = {}) =>
                 (exit_codes[e] = 0 <=>
                     e \in {"bundle_and_upload_packages", "upload_packages"})
           /\ situation.failing # {} => exit_codes[e] = 1

C23_Witness ==
    /\ DirectoryScripts \subseteq Exited
    /\ situation.directory
    /\ situation.found = {}
    /\ exit_codes["prepare_packages"] = 1
    /\ exit_codes["upload_packages"] = 0

C23_WitnessRaises ==
    /\ "prepare_packages" \in Exited
    /\ results["prepare_packages"] = "TypeError"
    /\ exit_codes["prepare_packages"] = 1

------------------------------------------------------------------------------
\* Claims about the dry-run mode

\* a step of a preparer made with dry_run: its construction or one of its
\* builds
DryPreparerStep == ovars' # ovars /\ preparer'.made /\ preparer'.dry_run

\* a step of a bundler or uploader run with dry_run
DryPublisherStep == rvars' # rvars /\ run'.fn # "none" /\ run'.dry_run

\* a step of an assembler made with dry_run
DryAssemblerStep == ivars' # ivars /\ assembler.dry_run

\* C24: in dry-run mode no operation changes any state: a dry-run preparer
\* makes no output directory and makes, removes and changes no staged
\* directory; a dry-run bundler or uploader run never comes to bundling or
\* uploading and leaves the bucket as it is; a dry-run assembler never comes
\* to listing, downloading or writing and leaves the index files as they are.
C24_DryRunChangesNothing ==
    [][/\ DryPreparerStep =>
            /\ output_exists' = output_exists
            /\ staged_dirs' = staged_dirs
            /\ opc' = "ready"
       /\ DryPublisherStep =>
            /\ bucket' = bucket
            /\ uploads' = <<>>
            /\ rpc' = "returned"
       /\ DryAssemblerStep =>
            /\ index_json' = index_json
            /\ packages_html' = packages_html
            /\ mip_json_keys' = <<>>
            /\ package_metadata' = <<>>
            /\ ipc' = "returned"
            /\ iresult' = "True"]_vars

\* a dry-run preparer has reported a build that it would prepare, with no
\* output directory made
C24_WitnessPreparer == preparer.made /\ preparer.dry_run /\ oresult = "True" /\ ~ output_exists

\* a dry-run bundler run on a staged directory with a readable mip.json is over
C24_WitnessPublisher == run.fn = "bundle_and_upload_package" /\ run.dry_run /\ rresult = "True"

\* a dry-run assembler has returned while the bucket holds sidecars
C24_WitnessAssembler == assembler.dry_run /\ ipc = "returned" /\ ListedKeys(objects) # <<>>

\* a dry-run preparer, made over an output directory that a normal preparer
\* left, has reported a build that it would prepare
C24_Witness == preparer.made /\ preparer.dry_run /\ oresult = "True" /\ nbuilds > 0 /\ output_exists

------------------------------------------------------------------------------
\* Claims about the staged directories

\* no build is under way
OutputAtRest == opc \in {"idle", "ready"}

------------------------------------------------------------------------------
\* Claims about the load/unload scripts of the preparer

PreparerWrote == ncalls > 0 /\ load_m.exists /\ unload_m.exists

\* C25: for a path list [p1..pn] the rmpath sequence of unload_package.m is
\* the reverse [pn..p1] of the addpath sequence [p1..pn] of load_package.m.
C25_UnloadIsReverseOfLoad ==
    PreparerWrote =>
        /\ FullfileCalls(load_m.lines, "addpath", FALSE) = sargs.paths
        /\ FullfileCalls(unload_m.lines, "rmpath", FALSE)
              = reversed(FullfileCalls(load_m.lines, "addpath", FALSE))

\* C25 as the code has it: the rmpath sequence is the addpath sequence,
\* both in listed order.
C25_UnloadInListedOrder ==
    PreparerWrote =>
        /\ FullfileCalls(load_m.lines, "addpath", FALSE) = sargs.paths
        /\ FullfileCalls(unload_m.lines, "rmpath", FALSE) = sargs.paths

\* paths ['a', 'b/c']: added a, b/c and removed a, b/c
C25_WitnessTwoPaths ==
    /\ PreparerWrote
    /\ sargs.paths = << <<"a">>, <<"b", "c">> >>
    /\ FullfileCalls(unload_m.lines, "rmpath", FALSE)
          = << <<"a">>, <<"b", "c">> >>

------------------------------------------------------------------------------
\* Claims about the manifest that is published and checked again

Rechecked == kpc = "decided" /\ fetched

\* the compared fields that _create_mip_json of the preparer writes with a
\* default when the definition leaves them out
DefaultedCompared == {"dependencies", "homepage", "repository", "license"}

\* C26: a manifest written from definition D and published unchanged is
\* matched by a later existence check against the same D, and the build is
\* skipped, whatever optional fields D leaves out.
C26_RepublishedIsSkipped == Rechecked => decision = "skip"

\* C26 as the code has it: the preparer's check matches exactly when D gives
\* all four defaulted fields, the builder's always.
C26_SkippedIffNothingDefaulted ==
    Rechecked =>
        (decision = "skip"
           <=> (flow = "prepare" =>
                   DefaultedCompared \subseteq DOMAIN package_data))

\* a prepare.yaml without homepage, published and checked again: no match
C26_WitnessNoHomepage ==
    /\ Rechecked
    /\ flow = "prepare"
    /\ DOMAIN package_data = (RequiredYaml \cup DefaultedYaml) \ {"homepage"}
    /\ decision # "skip"

------------------------------------------------------------------------------
\* Claims about the releases of a package

ReleasesReturned == lpc = "returned"

\* the names of the release folders of the listing
ReleaseFolders == {release_entries[i].name : i \in {j \in DOMAIN release_entries : release_entries[j].dir}}

HandledFolders == {handled[i] : i \in DOMAIN handled} \cap ReleaseFolders

\* C27: with no release selected, prepare_package_dir has processed every
\* release folder of the releases directory when it reports success; with a
\* release selected it processes that release folder and no other.
C27_EveryReleaseOrTheSelectedOne ==
    /\ (ReleasesReturned /\ ~ release.given /\ lresult = "True") =>
           HandledFolders = ReleaseFolders
    /\ (ReleasesReturned /\ release.given) =>
           HandledFolders = ReleaseFolders \cap {release.name}

\* C27 as the code has it: the call ends with the first entry that is not
\* passed over, so at most one entry is processed, and with a release
\* selected no other release folder than that one.
C27_FirstEntryOnly ==
    ReleasesReturned =>
        /\ Len(handled) <= 1
        /\ release.given => HandledFolders \subseteq {release.name}
        /\ (handled = <<>>) <=> (lresult = NoValue)

\* two release folders, none selected: success is reported after the first
C27_WitnessSecondReleaseLeft ==
    /\ ReleasesReturned
    /\ ~ release.given
    /\ lresult = "True"
    /\ Len(release_entries) = 2
    /\ ReleaseFolders = {"1.0", "2.0"}
    /\ Len(handled) = 1

------------------------------------------------------------------------------
\* Claims about the archive names

\* C29: two builds that differ in name, version or one of the three tags
\* get different archive file names, also when names or versions contain
\* '-'.
C29_DifferentBuildsDifferentNames ==
    \A i, j \in DOMAIN archive_names :
        archive_names[i].build # archive_names[j].build =>
            archive_names[i].mhl_filename # archive_names[j].mhl_filename

\* the parts of a string that are '-'
HasDash(str) == \E k \in DOMAIN str : str[k] = "-"

DashFree(b) == ~ HasDash(b.name) /\ ~ HasDash(b.version)

\* C29 for names and versions without '-': the file names of two such
\* builds differ.
C29_DashFreeBuildsDifferentNames ==
    \A i, j \in DOMAIN archive_names :
        (/\ archive_names[i].build # archive_names[j].build
         /\ DashFree(archive_names[i].build)
         /\ DashFree(archive_names[j].build)) =>
            archive_names[i].mhl_filename # archive_names[j].mhl_filename

\* name 'a-b' with version '1' and name 'a' with version 'b-1': one file
\* name, a-b-1-R2020-none-linux.mhl
C29_WitnessSameName ==
    /\ Len(archive_names) = 2
    /\ archive_names[1].build.name = <<"a", "-", "b">>
    /\ archive_names[2].build.name = <<"a">>
    /\ archive_names[1].mhl_filename = archive_names[2].mhl_filename

====
